---- MODULE Spec2Model ----
(***************************************************************************)
(* The turn-coordination core of the voice assistant "Jarvis":             *)
(*   - ClaudeCodeBackend (sprachassistent/ai/claude_code.py): the session  *)
(*     state machine behind ask / cancel / reset_session;                  *)
(*   - the shared work queue, its producers (run_loop, MatrixBridge) and   *)
(*     the single worker (_worker_loop / _process_message) of              *)
(*     sprachassistent/main.py.                                            *)
(*                                                                         *)
(* Spec         the assistant as run_loop starts it (producers + worker).  *)
(* SpecChat     the assistant as run_chat_loop starts it (chat only).      *)
(* SpecTurn     the worker with one envelope on its queue.                 *)
(* FairSpec, FairSpecChat   the same with the worker thread running.       *)
(* LiveSpec     Spec with the worker thread and the main thread running.   *)
(* SpecAdapter  the backend driven directly: one thread calling ask and    *)
(*              reset_session, a second thread calling cancel.             *)
(* SpecBridge   the chat-only assistant with every configuration of the    *)
(*              bridge's filters and with voice notes (_on_audio_message). *)
(* SpecRecorder one SpeechRecorder fed chunk by chunk.                     *)
(***************************************************************************)
EXTENDS Naturals, Integers, Sequences, FiniteSets, TLC

VARIABLES
    cfg,              \* constructor arguments of ClaudeCodeBackend
    session_started,  \* ClaudeCodeBackend._session_started
    resume_on_next,   \* ClaudeCodeBackend._resume_on_next
    current_process,  \* ClaudeCodeBackend._current_process (0 = None, else a pid)
    procs,            \* the external processes spawned and not yet reaped
    asks,             \* history: one frame per ask() call, the last one possibly active
    work_queue,       \* queue.Queue of AssistantMessage
    unfinished,       \* work_queue.unfinished_tasks (put: +1, task_done: -1)
    enqueued,         \* number of envelopes put so far (the next one gets id enqueued + 1)
    wpc,              \* position of the worker thread in _worker_loop
    cur,              \* the envelope of the worker's current (or last) turn
    inflight,         \* ids dequeued by the worker and not yet task_done
    step,             \* where the current (or last) turn stands
    spoken,           \* audio output of the current (or last) turn
    matrix_outgoing,  \* queue.Queue of (room_id, text) for the bridge
    ui_state,         \* TerminalUI state
    stop_event,       \* threading.Event stopping the worker
    restart_event,    \* threading.Event set by a restart turn
    mpc,              \* position of the main thread in run_loop
    bridge_cfg,       \* constructor arguments of MatrixBridge
    matrix_sent,      \* history: the room_send calls of the bridge, in call order
    keyboard_paused,  \* KeyboardMonitor._paused
    recorder          \* the fields of SpeechRecorder

backend == <<cfg, session_started, resume_on_next, current_process, procs, asks>>
periphery == <<bridge_cfg, matrix_sent, keyboard_paused, recorder>>
program == <<work_queue, unfinished, enqueued, wpc, cur, inflight, step, spoken,
             matrix_outgoing, ui_state, stop_event, restart_event, mpc,
             bridge_cfg, matrix_sent, keyboard_paused, recorder>>
vars == <<cfg, session_started, resume_on_next, current_process, procs, asks,
          work_queue, unfinished, enqueued, wpc, cur, inflight, step, spoken,
          matrix_outgoing, ui_state, stop_event, restart_event, mpc,
          bridge_cfg, matrix_sent, keyboard_paused, recorder>>

(***************************************************************************)
(* Bounds of the model.                                                    *)
(***************************************************************************)
MaxEnq == 2
MaxAsks == 3
MaxNotes == 1

(***************************************************************************)
(* Text.  A str is a sequence of one-character strings.                    *)
(***************************************************************************)
LowerChar(c) ==
    CASE c = "S" -> "s" [] c = "N" -> "n" [] c = "R" -> "r" [] c = "U" -> "u"
      [] OTHER -> c

lower(s) == [i \in 1..Len(s) |-> LowerChar(s[i])]

RECURSIVE lstrip(_)
lstrip(s) == IF s # <<>> /\ Head(s) = " " THEN lstrip(Tail(s)) ELSE s

RECURSIVE rstrip(_)
rstrip(s) == IF s # <<>> /\ s[Len(s)] = " " THEN rstrip(SubSeq(s, 1, Len(s) - 1)) ELSE s

strip(s) == rstrip(lstrip(s))

\* Python's `kw in s` on strings.
contains(kw, s) == \E i \in 1..(Len(s) + 1 - Len(kw)) : SubSeq(s, i, i + Len(kw) - 1) = kw

(***************************************************************************)
(* ClaudeCodeBackend.                                                      *)
(***************************************************************************)
SystemPrompts == {<<>>, <<"P">>}
Configs == [resume_session : BOOLEAN, system_prompt : SystemPrompts]

\* The three states of the conversational session.
SessionState ==
    IF session_started THEN "Continuing"
    ELSE IF resume_on_next THEN "ResumePending" ELSE "Fresh"

build_cmd_after_first(started, resume, user_message) ==
    LET directive == IF started \/ asks # <<>> THEN {"--continue"}
                     ELSE IF resume THEN {"--resume"}
                     ELSE IF cfg.system_prompt # <<>> THEN {"--system-prompt"}
                     ELSE {}
    IN  [flags |-> directive,
         system_prompt |-> IF "--system-prompt" \in directive THEN cfg.system_prompt ELSE <<>>,
         message |-> user_message]

build_cmd_both(started, resume, user_message) ==
    LET directive == (IF started THEN {"--continue"} ELSE {})
                     \cup (IF resume THEN {"--resume"} ELSE {})
                     \cup (IF cfg.system_prompt # <<>> THEN {"--system-prompt"} ELSE {})
    IN  [flags |-> directive,
         system_prompt |-> IF "--system-prompt" \in directive THEN cfg.system_prompt ELSE <<>>,
         message |-> user_message]

\* _build_cmd with the adapter's flags passed in: ask changes _resume_on_next
\* between its two calls of it.
build_cmd(started, resume, user_message) ==
    LET directive == IF started THEN {"--continue"}
                     ELSE IF resume THEN {"--resume"}
                     ELSE IF cfg.system_prompt # <<>> THEN {"--system-prompt"}
                     ELSE {}
    IN  [flags |-> directive,
         system_prompt |-> IF "--system-prompt" \in directive THEN cfg.system_prompt ELSE <<>>,
         message |-> user_message]

\* What the external process can do by itself: exit with a code and an output,
\* or outlive communicate's timeout.
Stdouts == {<<>>, <<" ">>, <<" ", "o">>, <<"p", " ">>}
ProcEvents ==
    [kind : {"exit"}, rc : {0, 1}, stdout : Stdouts]
      \cup {[kind |-> "timeout", rc |-> 0, stdout |-> <<>>]}

Signals == {"SIGTERM", "SIGKILL"}

\* The return code of a process ended by a signal (Popen.returncode = -signum).
SignalRc(st) == IF st = "SIGTERM" THEN 0 - 15 ELSE 0 - 9

run_result_timeout_as_exit(ev) ==
    IF ev.kind = "timeout" THEN [ok |-> FALSE, err |-> "exit", response |-> <<>>]
    ELSE IF ev.rc # 0 THEN [ok |-> FALSE, err |-> "exit", response |-> <<>>]
    ELSE IF strip(ev.stdout) = <<>> THEN [ok |-> FALSE, err |-> "empty", response |-> <<>>]
    ELSE [ok |-> TRUE, err |-> "", response |-> strip(ev.stdout)]

run_result_untrimmed(ev) ==
    IF ev.kind = "timeout" THEN [ok |-> FALSE, err |-> "timeout", response |-> <<>>]
    ELSE IF ev.rc # 0 THEN [ok |-> FALSE, err |-> "exit", response |-> <<>>]
    ELSE IF ev.stdout = <<>> THEN [ok |-> FALSE, err |-> "empty", response |-> <<>>]
    ELSE [ok |-> TRUE, err |-> "", response |-> ev.stdout]

\* The outcome of _run_command once communicate has returned or timed out.
run_result(ev) ==
    IF ev.kind = "timeout" THEN [ok |-> FALSE, err |-> "timeout", response |-> <<>>]
    ELSE IF ev.rc # 0 THEN [ok |-> FALSE, err |-> "exit", response |-> <<>>]
    ELSE IF strip(ev.stdout) = <<>> THEN [ok |-> FALSE, err |-> "empty", response |-> <<>>]
    ELSE [ok |-> TRUE, err |-> "", response |-> strip(ev.stdout)]

fallback_always(resume) == TRUE

\* ask: the except branch retries iff _resume_on_next is set.
should_fallback(resume) == resume

resume_kept_for_fallback == TRUE

\* ask: _resume_on_next as the except branch leaves it before the retry.
resume_after_fallback == FALSE

fallback_message_empty(user_message) == <<>>

\* ask: the retry is built from the same user_message.
fallback_message(user_message) == user_message

success_keeps_fresh == [started |-> FALSE, resume |-> FALSE]

\* ask: the two assignments after a successful exchange.
session_after_success == [started |-> TRUE, resume |-> FALSE]

\* Popen raising OSError, as an outcome of an attempt.
PopenFailed == [ok |-> FALSE, err |-> "oserror", response |-> <<>>]

FreshPid == CHOOSE p \in 1..(Cardinality(procs) + 1) : \A q \in procs : q.pid # p

Frame(id, user_message, cmd, popen_ok) ==
    [id |-> id, text |-> user_message, from |-> SessionState, cmds |-> <<cmd>>,
     outcomes |-> IF popen_ok THEN <<>> ELSE <<PopenFailed>>,
     active |-> popen_ok, result |-> IF popen_ok THEN "none" ELSE "oserror",
     response |-> <<>>, cancelled |-> {}, reset |-> FALSE]

\* The history keeps the last call in full, of the call before it what it started
\* from, the directives it sent and how it ended, and of older calls only
\* whether they succeeded and whether reset_session followed.
Previous(f) ==
    [f EXCEPT !.text = <<>>, !.response = <<>>, !.cancelled = {}, !.outcomes = <<>>,
              !.cmds = [k \in 1..Len(f.cmds) |->
                          [f.cmds[k] EXCEPT !.message = <<>>, !.system_prompt = <<>>]]]
Older(f) ==
    [Previous(f) EXCEPT !.cmds = <<>>, !.from = "",
                        !.result = IF f.result = "ok" THEN "ok" ELSE "error"]
Aged(log) == [i \in 1..Len(log) |-> IF i = Len(log) THEN Previous(log[i]) ELSE Older(log[i])]

Call == asks[Len(asks)]
Asking == asks # <<>> /\ Call.active

\* ask up to the point where it blocks in communicate: _build_cmd, then Popen,
\* which either yields a process or raises OSError (not an AIBackendError: it
\* leaves ask at once, through the finally clause).
ask_enter(id, user_message, popen_ok) ==
    LET cmd == build_cmd(session_started, resume_on_next, user_message)
    IN  /\ asks' = Append(Aged(asks), Frame(id, user_message, cmd, popen_ok))
        /\ IF popen_ok
           THEN /\ procs' = procs \cup {[pid |-> FreshPid, st |-> "running"]}
                /\ current_process' = FreshPid
           ELSE /\ procs' = procs
                /\ current_process' = 0
        /\ UNCHANGED <<cfg, session_started, resume_on_next>>

\* ask from the return of communicate on: the process has ended by itself (ev),
\* was ended by cancel, or is killed at the timeout.  The handle is cleared, and
\* ask returns, raises, or retries with a fresh session and blocks again.
ask_complete(ev, popen_ok) ==
    LET n == Len(asks)
        p == CHOOSE q \in procs : q.pid = current_process
        r == run_result(IF p.st = "running" THEN ev
                        ELSE [kind |-> "exit", rc |-> SignalRc(p.st), stdout |-> <<>>])
        reaped == procs \ {p}
        cmd2 == build_cmd(session_started, resume_after_fallback,
                          fallback_message(Call.text))
    IN  /\ Asking
        /\ current_process # 0
        /\ UNCHANGED cfg
        /\ IF r.ok
           THEN /\ asks' = [asks EXCEPT ![n].active = FALSE, ![n].result = "ok",
                                        ![n].response = r.response,
                                        ![n].outcomes = Append(@, r)]
                /\ session_started' = session_after_success.started
                /\ resume_on_next' = session_after_success.resume
                /\ procs' = reaped
                /\ current_process' = 0
           ELSE IF Len(Call.cmds) = 1 /\ should_fallback(resume_on_next)
           THEN /\ resume_on_next' = resume_after_fallback
                /\ UNCHANGED session_started
                /\ IF popen_ok
                   THEN /\ asks' = [asks EXCEPT ![n].cmds = Append(@, cmd2),
                                                ![n].outcomes = Append(@, r)]
                        /\ procs' = reaped \cup {[pid |-> p.pid, st |-> "running"]}
                        /\ current_process' = p.pid
                   ELSE /\ asks' = [asks EXCEPT ![n].cmds = Append(@, cmd2),
                                                ![n].outcomes = Append(@, r) \o <<PopenFailed>>,
                                                ![n].active = FALSE,
                                                ![n].result = "oserror"]
                        /\ procs' = reaped
                        /\ current_process' = 0
           ELSE /\ asks' = [asks EXCEPT ![n].active = FALSE, ![n].result = r.err,
                                        ![n].outcomes = Append(@, r)]
                /\ procs' = reaped
                /\ current_process' = 0
                /\ UNCHANGED <<session_started, resume_on_next>>

reset_session_keeps_resume ==
    /\ session_started' = FALSE
    /\ asks' = IF asks = <<>> THEN asks ELSE [asks EXCEPT ![Len(asks)].reset = TRUE]
    /\ UNCHANGED <<cfg, resume_on_next, current_process, procs>>

\* reset_session.
reset_session ==
    /\ session_started' = FALSE
    /\ resume_on_next' = FALSE
    /\ asks' = IF asks = <<>> THEN asks ELSE [asks EXCEPT ![Len(asks)].reset = TRUE]
    /\ UNCHANGED <<cfg, current_process, procs>>

\* cancel: terminate the process behind the handle, kill it if it does not exit
\* within the grace period; nothing to do without a handle or when the process
\* has already ended.
cancel(sig) ==
    /\ IF current_process # 0 /\ \E q \in procs : q.pid = current_process /\ q.st = "running"
       THEN /\ procs' = {IF q.pid = current_process THEN [q EXCEPT !.st = sig] ELSE q : q \in procs}
            /\ asks' = [asks EXCEPT ![Len(asks)].cancelled = @ \cup {Len(Call.cmds)}]
       ELSE UNCHANGED <<procs, asks>>
    /\ UNCHANGED <<cfg, session_started, resume_on_next, current_process>>

(***************************************************************************)
(* The transcript filter (WhisperTranscriber.filter_transcript).           *)
(***************************************************************************)
filter_phrases == << <<"u">> >>

\* re.sub(re.escape(phrase), "", text, flags=re.IGNORECASE)
RECURSIVE remove_phrase(_, _)
remove_phrase(phrase, s) ==
    IF s = <<>> THEN <<>>
    ELSE IF Len(s) >= Len(phrase) /\ lower(SubSeq(s, 1, Len(phrase))) = lower(phrase)
    THEN remove_phrase(phrase, SubSeq(s, Len(phrase) + 1, Len(s)))
    ELSE <<Head(s)>> \o remove_phrase(phrase, Tail(s))

\* re.sub(r"\s+", " ", text)
RECURSIVE collapse_spaces(_)
collapse_spaces(s) ==
    IF Len(s) < 2 THEN s
    ELSE IF s[1] = " " /\ s[2] = " " THEN collapse_spaces(Tail(s))
    ELSE <<Head(s)>> \o collapse_spaces(Tail(s))

RECURSIVE remove_phrases(_, _)
remove_phrases(phrases, s) ==
    IF phrases = <<>> THEN s
    ELSE remove_phrases(Tail(phrases), remove_phrase(Head(phrases), s))

filter_transcript(text) == strip(collapse_spaces(remove_phrases(filter_phrases, text)))

(***************************************************************************)
(* Envelopes (AssistantMessage) and the inputs of the producers.           *)
(***************************************************************************)
cancel_keywords == {<<"s", "t">>}
reset_keywords == {<<"n">>}
restart_keywords == {<<"r">>}

\* Recorded PCM: its byte length, and what was said in it.
sample_rate == 1
min_recording_sec == 1

TPlain == <<"a">>
TCancel == <<" ", "S", "t">>
TReset == <<"n">>
TRestart == <<"r">>
TBlank == <<" ">>

Recordings == {[len |-> 0, says |-> <<>>], [len |-> 1, says |-> TPlain],
               [len |-> 2, says |-> TPlain], [len |-> 2, says |-> TCancel],
               [len |-> 2, says |-> TRestart]}
TypedTexts == {<<>>, TBlank, TPlain, TRestart}
ChatTexts == {TPlain, TReset, TCancel}

\* Texts with several keywords, in an order other than the order of the checks.
TCancelReset == <<"n", " ", "S", "t">>
TCancelRestart == <<"r", "s", "t">>
TResetRestart == <<"r", "n">>
TAllKeywords == <<"r", "n", "s", "t">>
\* Texts with nothing left for the keyword checks: nothing at all, and a
\* filtered phrase with a blank.
TNothing == <<>>
TFiltered == <<"u", " ">>
TurnTexts == {TPlain, TCancel, TReset, TRestart, TBlank,
              TCancelReset, TCancelRestart, TResetRestart, TAllKeywords,
              TNothing, TFiltered}
TurnRecordings ==
    [len : {2}, says : TurnTexts] \cup {[len |-> 1, says |-> TPlain], [len |-> 3, says |-> TPlain]}

\* MatrixBridge configuration.
bridge_room == "!room"
bridge_user == "@jarvis"
allowed_users == {"@user"}
start_timestamp == 2
ChatRooms == {"!room", "!other"}
ChatSenders == {"@user", "@jarvis", "@stranger"}
ChatTimestamps == {1, 2}
\* The bridge as main() builds it from the configuration.
ConfiguredBridge ==
    [room_id |-> bridge_room, user_id |-> bridge_user, allowed_users |-> allowed_users,
     start_timestamp |-> start_timestamp]

\* id and after_stop are history: the position of the put among all puts, and
\* whether the stop event was already set at the put.
AssistantMessage_room_for_all(id, source, input_type, content, room_id, sender) ==
    [id |-> id, source |-> source, input_type |-> input_type, content |-> content,
     room_id |-> bridge_room, sender |-> sender, after_stop |-> stop_event]

AssistantMessage(id, source, input_type, content, room_id, sender) ==
    [id |-> id, source |-> source, input_type |-> input_type, content |-> content,
     room_id |-> room_id, sender |-> sender, after_stop |-> stop_event]

\* work_queue.put
put(msg) ==
    /\ work_queue' = Append(work_queue, msg)
    /\ unfinished' = unfinished + 1
    /\ enqueued' = enqueued + 1

(***************************************************************************)
(* SpeechRecorder (sprachassistent/audio/recorder.py).  A chunk is the     *)
(* sequence of its full VAD frames, TRUE for a frame whose speech          *)
(* probability reaches the threshold; the samples after the last full      *)
(* frame are buffered and never classified.                                *)
(***************************************************************************)
\* _silence_frame_limit and _max_frame_limit for silence and maximum durations
\* of at least one frame.
SilenceFrameLimits == {1, 2, 3}
MaxFrameLimits == {2, 3, 4}
Chunks == UNION {[1..n -> BOOLEAN] : n \in 0..2}

\* __init__.  returned is history: what the last process_chunk call returned.
NewRecorder(silence_limit, max_limit) ==
    [silence_frame_limit |-> silence_limit, max_frame_limit |-> max_limit,
     audio_buffer |-> <<>>, silence_frames |-> 0, total_frames |-> 0,
     recording |-> FALSE, returned |-> "none"]

\* The recorder of the assistant: the limits of its configuration.
SpeechRecorder == NewRecorder(2, 4)

start(r) ==
    [r EXCEPT !.audio_buffer = <<>>, !.silence_frames = 0, !.total_frames = 0,
              !.recording = TRUE]

\* The while loop of process_chunk over the frames of one chunk.
RECURSIVE vad_frames(_, _)
vad_frames(r, frames) ==
    IF frames = <<>> THEN [r EXCEPT !.returned = "True"]
    ELSE LET counted == [r EXCEPT !.silence_frames = IF Head(frames) THEN 0 ELSE @ + 1,
                                  !.total_frames = @ + 1]
         IN  IF counted.silence_frames >= counted.silence_frame_limit
                \/ counted.total_frames >= counted.max_frame_limit
             THEN [counted EXCEPT !.recording = FALSE, !.returned = "False"]
             ELSE vad_frames(counted, Tail(frames))

process_chunk_buffers_when_stopped(r, audio_chunk) ==
    vad_frames([r EXCEPT !.audio_buffer = Append(@, Len(audio_chunk))], audio_chunk)

process_chunk(r, audio_chunk) ==
    IF ~r.recording THEN [r EXCEPT !.returned = "False"]
    ELSE vad_frames([r EXCEPT !.audio_buffer = Append(@, Len(audio_chunk))], audio_chunk)

(***************************************************************************)
(* The main thread: run_loop.                                              *)
(***************************************************************************)
\* KeyboardMonitor.pause
pause(paused) == TRUE

resume_never(paused) == paused

\* KeyboardMonitor.resume on the monitor that has just handed out a key: it is
\* active, and the terminal that took cbreak mode in start() takes it again.
resume(paused) == FALSE

\* KeyboardMonitor.check hands a key to the loop: pause, text collection and
\* resume (the finally clause), then one KEYBOARD/TEXT envelope unless the text
\* is empty; an exception of the collection leaves the loop.
\* collected is FALSE when text_input.collect raises.
keyboard_turn(typed_text, collected) ==
    /\ mpc = "loop"
    /\ ~keyboard_paused
    /\ enqueued < MaxEnq
    /\ keyboard_paused' = resume(pause(keyboard_paused))
    /\ IF ~collected
       THEN /\ ui_state' = "TYPING"
            /\ mpc' = "join_interrupt"
            /\ UNCHANGED <<work_queue, unfinished, enqueued>>
       ELSE IF typed_text # <<>> /\ strip(typed_text) # <<>>
       THEN /\ put(AssistantMessage(enqueued + 1, "KEYBOARD", "TEXT", typed_text, "", ""))
            /\ ui_state' = "TYPING"
            /\ mpc' = mpc
       ELSE /\ ui_state' = "LISTENING"
            /\ mpc' = mpc
            /\ UNCHANGED <<work_queue, unfinished, enqueued>>

KeyboardInput ==
    /\ \E typed_text \in TypedTexts, collected \in BOOLEAN : keyboard_turn(typed_text, collected)
    /\ UNCHANGED <<wpc, cur, inflight, step, spoken, matrix_outgoing, stop_event,
                   restart_event>>
    /\ UNCHANGED backend
    /\ UNCHANGED <<bridge_cfg, matrix_sent, recorder>>

\* The wake word fires: record until the recorder stops, then one VOICE/AUDIO
\* envelope unless nothing was recorded.
VoiceCapture ==
    /\ mpc = "loop"
    /\ enqueued < MaxEnq
    /\ \E recorded_audio \in Recordings :
         IF recorded_audio.len = 0
         THEN /\ ui_state' = "LISTENING"
              /\ UNCHANGED <<work_queue, unfinished, enqueued>>
         ELSE /\ put(AssistantMessage(enqueued + 1, "VOICE", "AUDIO", recorded_audio, "", ""))
              /\ ui_state' = "RECORDING"
    /\ UNCHANGED <<wpc, cur, inflight, step, spoken, matrix_outgoing, stop_event,
                   restart_event, mpc>>
    /\ UNCHANGED backend
    /\ UNCHANGED periphery

MainRestart_never ==
    /\ FALSE
    /\ UNCHANGED vars

\* The loop sees the restart event and raises _RestartRequested.
MainRestart ==
    /\ mpc = "loop"
    /\ restart_event
    /\ mpc' = "join_restart"
    /\ UNCHANGED <<work_queue, unfinished, enqueued, wpc, cur, inflight, step, spoken,
                   matrix_outgoing, ui_state, stop_event, restart_event>>
    /\ UNCHANGED backend
    /\ UNCHANGED periphery

\* KeyboardInterrupt, or an exception of the microphone or the player.
MainInterrupt ==
    /\ mpc = "loop"
    /\ mpc' = "join_interrupt"
    /\ UNCHANGED <<work_queue, unfinished, enqueued, wpc, cur, inflight, step, spoken,
                   matrix_outgoing, ui_state, stop_event, restart_event>>
    /\ UNCHANGED backend
    /\ UNCHANGED periphery

\* The finally clause: work_queue.join() returns.
MainJoined ==
    /\ mpc \in {"join_restart", "join_interrupt"}
    /\ unfinished = 0
    /\ mpc' = IF mpc = "join_restart" THEN "stop_restart" ELSE "stop_interrupt"
    /\ UNCHANGED <<work_queue, unfinished, enqueued, wpc, cur, inflight, step, spoken,
                   matrix_outgoing, ui_state, stop_event, restart_event>>
    /\ UNCHANGED backend
    /\ UNCHANGED periphery

\* stop_event.set(), then worker.join(timeout=5) begins.
MainStop ==
    /\ mpc \in {"stop_restart", "stop_interrupt"}
    /\ stop_event' = TRUE
    /\ mpc' = IF mpc = "stop_restart" THEN "wait_restart" ELSE "wait_interrupt"
    /\ UNCHANGED <<work_queue, unfinished, enqueued, wpc, cur, inflight, step, spoken,
                   matrix_outgoing, ui_state, restart_event>>
    /\ UNCHANGED backend
    /\ UNCHANGED periphery

\* worker.join(timeout=5) returns, the worker gone or the five seconds over, and
\* the exception leaves the loop function.
MainLeaves ==
    /\ mpc \in {"wait_restart", "wait_interrupt"}
    /\ mpc' = IF mpc = "wait_restart" THEN "restart_requested" ELSE "interrupted"
    /\ UNCHANGED <<work_queue, unfinished, enqueued, wpc, cur, inflight, step, spoken,
                   matrix_outgoing, ui_state, stop_event, restart_event>>
    /\ UNCHANGED backend
    /\ UNCHANGED periphery

(***************************************************************************)
(* The main thread in chat-only mode: run_chat_loop.                       *)
(***************************************************************************)
\* KeyboardInterrupt ends the wait loop: the finally clause sets the stop event
\* and begins worker.join(timeout=5).
ChatInterrupt ==
    /\ mpc = "loop"
    /\ stop_event' = TRUE
    /\ mpc' = "wait_interrupt"
    /\ UNCHANGED <<work_queue, unfinished, enqueued, wpc, cur, inflight, step, spoken,
                   matrix_outgoing, ui_state, restart_event>>
    /\ UNCHANGED backend
    /\ UNCHANGED periphery

(***************************************************************************)
(* The Matrix bridge thread.                                               *)
(***************************************************************************)
\* client.room_send(room_id, "m.room.message", content): one call, whose error
\* response or exception is logged and dropped by the caller.
room_send(item, by) ==
    [room_id |-> item.room_id, what |-> item.what, text |-> item.text, re |-> item.re, by |-> by]

\* _on_message: the four filters, then one MATRIX/TEXT envelope.
accepts_any_sender(room, sender, timestamp) ==
    /\ room = bridge_cfg.room_id
    /\ ~(bridge_cfg.start_timestamp # 0 /\ timestamp < bridge_cfg.start_timestamp)

accepts(room, sender, timestamp) ==
    /\ room = bridge_cfg.room_id
    /\ sender # bridge_cfg.user_id
    /\ ~(bridge_cfg.start_timestamp # 0 /\ timestamp < bridge_cfg.start_timestamp)
    /\ sender \in bridge_cfg.allowed_users

on_message(room, sender, ts, body) ==
    IF accepts(room, sender, ts)
    THEN put(AssistantMessage(enqueued + 1, "MATRIX", "TEXT", body, room, sender))
    ELSE UNCHANGED <<work_queue, unfinished, enqueued>>

OnMessage ==
    /\ enqueued < MaxEnq
    /\ \E room \in ChatRooms, sender \in ChatSenders, ts \in ChatTimestamps, body \in ChatTexts :
         on_message(room, sender, ts, body)
    /\ UNCHANGED <<wpc, cur, inflight, step, spoken, matrix_outgoing, ui_state, stop_event,
                   restart_event, mpc>>
    /\ UNCHANGED backend
    /\ UNCHANGED periphery

\* _send_text(room_id, text): one room_send from the callback itself.  re is
\* history: the envelope the message is about, 0 for a notice.
send_text(room, what, text, re) ==
    matrix_sent' = Append(matrix_sent,
                          room_send([room_id |-> room, what |-> what, text |-> text, re |-> re],
                                    "_send_text"))

\* What a voice note goes through before it is queued: the size of the event's
\* metadata, client.download, transcriber.transcribe_file.
Sizes == {"fits", "too_large"}
Downloads == {"body", "DownloadError", "exception"}
Transcripts == {TPlain, TCancel, TFiltered, TBlank, TNothing}

audio_outcome_ignores_size(size, download, stt_ok, raw) == "queued"

\* The way _on_audio_message leaves for an accepted event.
audio_outcome(size, download, stt_ok, raw) ==
    IF size = "too_large" THEN "too_large"
    ELSE IF download # "body" THEN "download_error"
    ELSE IF ~stt_ok THEN "transcription_error"
    ELSE IF filter_transcript(raw) = <<>> \/ strip(filter_transcript(raw)) = <<>> THEN "no_text"
    ELSE "queued"

\* _on_audio_message: the four filters, then a notice to the room, or the
\* transcript quoted to the room and one MATRIX/TEXT envelope.
on_audio_message(room, sender, ts, size, download, stt_ok, raw) ==
    LET outcome == audio_outcome(size, download, stt_ok, raw)
        text == filter_transcript(raw)
    IN  IF ~accepts(room, sender, ts)
        THEN UNCHANGED <<work_queue, unfinished, enqueued, matrix_sent>>
        ELSE IF outcome = "queued"
        THEN /\ send_text(room, "transcript", text, enqueued + 1)
             /\ put(AssistantMessage(enqueued + 1, "MATRIX", "TEXT", text, room, sender))
        ELSE /\ send_text(room, outcome, <<>>, 0)
             /\ UNCHANGED <<work_queue, unfinished, enqueued>>

OnAudioMessage ==
    /\ enqueued < MaxEnq
    /\ Len(SelectSeq(matrix_sent, LAMBDA m : m.by = "_send_text")) < MaxNotes
    /\ \E room \in ChatRooms, sender \in ChatSenders, ts \in ChatTimestamps,
          size \in Sizes, download \in Downloads, stt_ok \in BOOLEAN, raw \in Transcripts :
         on_audio_message(room, sender, ts, size, download, stt_ok, raw)
    /\ UNCHANGED <<wpc, cur, inflight, step, spoken, matrix_outgoing, ui_state, stop_event,
                   restart_event, mpc>>
    /\ UNCHANGED backend
    /\ UNCHANGED <<bridge_cfg, keyboard_paused, recorder>>

ResponseSender_newest_first ==
    /\ matrix_outgoing # <<>>
    /\ matrix_outgoing' = SubSeq(matrix_outgoing, 1, Len(matrix_outgoing) - 1)
    /\ matrix_sent' = Append(matrix_sent,
                             room_send(matrix_outgoing[Len(matrix_outgoing)], "_response_sender"))
    /\ UNCHANGED <<work_queue, unfinished, enqueued, wpc, cur, inflight, step, spoken,
                   ui_state, stop_event, restart_event, mpc>>
    /\ UNCHANGED backend
    /\ UNCHANGED <<bridge_cfg, keyboard_paused, recorder>>

\* _response_sender takes one (room_id, text) off the outgoing queue and sends it.
ResponseSender ==
    /\ matrix_outgoing # <<>>
    /\ matrix_outgoing' = Tail(matrix_outgoing)
    /\ matrix_sent' = Append(matrix_sent, room_send(Head(matrix_outgoing), "_response_sender"))
    /\ UNCHANGED <<work_queue, unfinished, enqueued, wpc, cur, inflight, step, spoken,
                   ui_state, stop_event, restart_event, mpc>>
    /\ UNCHANGED backend
    /\ UNCHANGED <<bridge_cfg, keyboard_paused, recorder>>

(***************************************************************************)
(* The worker thread: _worker_loop and _process_message.                   *)
(***************************************************************************)
queue_get_last(q) == [item |-> q[Len(q)], rest |-> SubSeq(q, 1, Len(q) - 1)]

\* work_queue.get
queue_get(q) == [item |-> Head(q), rest |-> Tail(q)]

may_dequeue_while_asking == wpc \in {"get", "ask"}

\* The worker calls work_queue.get only from the top of its loop, after the
\* previous _process_message has returned and task_done has been called.
may_dequeue_chat_at_once ==
    wpc = "get" \/ (wpc = "ask" /\ work_queue # <<>> /\ Head(work_queue).source = "MATRIX")

may_dequeue == wpc = "get"

has_keyword(keywords, normalized) == \E kw \in keywords : contains(kw, normalized)

pipeline_reset_first(msg, stt_ok) ==
    LET audio == msg.content
        too_short == min_recording_sec > 0
                       /\ audio.len < min_recording_sec * (sample_rate * 2)
        text == IF msg.input_type = "AUDIO" THEN filter_transcript(audio.says)
                ELSE IF msg.source \in {"VOICE", "KEYBOARD"} THEN filter_transcript(msg.content)
                ELSE msg.content
        normalized == lower(strip(text))
    IN  IF msg.input_type = "AUDIO" /\ audio.len = 0 THEN [way |-> "no_audio", text |-> <<>>]
        ELSE IF msg.input_type = "AUDIO" /\ too_short THEN [way |-> "too_short", text |-> <<>>]
        ELSE IF msg.input_type = "AUDIO" /\ ~stt_ok THEN [way |-> "stt_error", text |-> <<>>]
        ELSE IF text = <<>> \/ strip(text) = <<>> THEN [way |-> "empty", text |-> text]
        ELSE IF reset_keywords # {} /\ has_keyword(reset_keywords, normalized)
        THEN [way |-> "reset", text |-> text]
        ELSE IF cancel_keywords # {} /\ has_keyword(cancel_keywords, normalized)
        THEN [way |-> "cancel", text |-> text]
        ELSE IF restart_keywords # {} /\ msg.source \in {"VOICE", "KEYBOARD"}
                /\ has_keyword(restart_keywords, normalized)
        THEN [way |-> "restart", text |-> text]
        ELSE [way |-> "ai", text |-> text]

pipeline_restart_any_source(msg, stt_ok) ==
    LET audio == msg.content
        too_short == min_recording_sec > 0
                       /\ audio.len < min_recording_sec * (sample_rate * 2)
        text == IF msg.input_type = "AUDIO" THEN filter_transcript(audio.says)
                ELSE IF msg.source \in {"VOICE", "KEYBOARD"} THEN filter_transcript(msg.content)
                ELSE msg.content
        normalized == lower(strip(text))
    IN  IF msg.input_type = "AUDIO" /\ audio.len = 0 THEN [way |-> "no_audio", text |-> <<>>]
        ELSE IF msg.input_type = "AUDIO" /\ too_short THEN [way |-> "too_short", text |-> <<>>]
        ELSE IF msg.input_type = "AUDIO" /\ ~stt_ok THEN [way |-> "stt_error", text |-> <<>>]
        ELSE IF text = <<>> \/ strip(text) = <<>> THEN [way |-> "empty", text |-> text]
        ELSE IF cancel_keywords # {} /\ has_keyword(cancel_keywords, normalized)
        THEN [way |-> "cancel", text |-> text]
        ELSE IF reset_keywords # {} /\ has_keyword(reset_keywords, normalized)
        THEN [way |-> "reset", text |-> text]
        ELSE IF restart_keywords # {}
                /\ has_keyword(restart_keywords, normalized)
        THEN [way |-> "restart", text |-> text]
        ELSE [way |-> "ai", text |-> text]

pipeline_drops_at_threshold(msg, stt_ok) ==
    LET audio == msg.content
        too_short == min_recording_sec > 0
                       /\ audio.len <= min_recording_sec * (sample_rate * 2)
        text == IF msg.input_type = "AUDIO" THEN filter_transcript(audio.says)
                ELSE IF msg.source \in {"VOICE", "KEYBOARD"} THEN filter_transcript(msg.content)
                ELSE msg.content
        normalized == lower(strip(text))
    IN  IF msg.input_type = "AUDIO" /\ audio.len = 0 THEN [way |-> "no_audio", text |-> <<>>]
        ELSE IF msg.input_type = "AUDIO" /\ too_short THEN [way |-> "too_short", text |-> <<>>]
        ELSE IF msg.input_type = "AUDIO" /\ ~stt_ok THEN [way |-> "stt_error", text |-> <<>>]
        ELSE IF text = <<>> \/ strip(text) = <<>> THEN [way |-> "empty", text |-> text]
        ELSE IF cancel_keywords # {} /\ has_keyword(cancel_keywords, normalized)
        THEN [way |-> "cancel", text |-> text]
        ELSE IF reset_keywords # {} /\ has_keyword(reset_keywords, normalized)
        THEN [way |-> "reset", text |-> text]
        ELSE IF restart_keywords # {} /\ msg.source \in {"VOICE", "KEYBOARD"}
                /\ has_keyword(restart_keywords, normalized)
        THEN [way |-> "restart", text |-> text]
        ELSE [way |-> "ai", text |-> text]

pipeline_keeps_blank(msg, stt_ok) ==
    LET audio == msg.content
        too_short == min_recording_sec > 0
                       /\ audio.len < min_recording_sec * (sample_rate * 2)
        text == IF msg.input_type = "AUDIO" THEN filter_transcript(audio.says)
                ELSE IF msg.source \in {"VOICE", "KEYBOARD"} THEN filter_transcript(msg.content)
                ELSE msg.content
        normalized == lower(strip(text))
    IN  IF msg.input_type = "AUDIO" /\ audio.len = 0 THEN [way |-> "no_audio", text |-> <<>>]
        ELSE IF msg.input_type = "AUDIO" /\ too_short THEN [way |-> "too_short", text |-> <<>>]
        ELSE IF msg.input_type = "AUDIO" /\ ~stt_ok THEN [way |-> "stt_error", text |-> <<>>]
        ELSE IF text = <<>> THEN [way |-> "empty", text |-> text]
        ELSE IF cancel_keywords # {} /\ has_keyword(cancel_keywords, normalized)
        THEN [way |-> "cancel", text |-> text]
        ELSE IF reset_keywords # {} /\ has_keyword(reset_keywords, normalized)
        THEN [way |-> "reset", text |-> text]
        ELSE IF restart_keywords # {} /\ msg.source \in {"VOICE", "KEYBOARD"}
                /\ has_keyword(restart_keywords, normalized)
        THEN [way |-> "restart", text |-> text]
        ELSE [way |-> "ai", text |-> text]

\* _process_message up to the AI request: which way the turn goes, and its text.
pipeline(msg, stt_ok) ==
    LET audio == msg.content
        too_short == min_recording_sec > 0
                       /\ audio.len < min_recording_sec * (sample_rate * 2)
        text == IF msg.input_type = "AUDIO" THEN filter_transcript(audio.says)
                ELSE IF msg.source \in {"VOICE", "KEYBOARD"} THEN filter_transcript(msg.content)
                ELSE msg.content
        normalized == lower(strip(text))
    IN  IF msg.input_type = "AUDIO" /\ audio.len = 0 THEN [way |-> "no_audio", text |-> <<>>]
        ELSE IF msg.input_type = "AUDIO" /\ too_short THEN [way |-> "too_short", text |-> <<>>]
        ELSE IF msg.input_type = "AUDIO" /\ ~stt_ok THEN [way |-> "stt_error", text |-> <<>>]
        ELSE IF text = <<>> \/ strip(text) = <<>> THEN [way |-> "empty", text |-> text]
        ELSE IF cancel_keywords # {} /\ has_keyword(cancel_keywords, normalized)
        THEN [way |-> "cancel", text |-> text]
        ELSE IF reset_keywords # {} /\ has_keyword(reset_keywords, normalized)
        THEN [way |-> "reset", text |-> text]
        ELSE IF restart_keywords # {} /\ msg.source \in {"VOICE", "KEYBOARD"}
                /\ has_keyword(restart_keywords, normalized)
        THEN [way |-> "restart", text |-> text]
        ELSE [way |-> "ai", text |-> text]

\* pipeline, tabulated once over the contents the producers can put (the same
\* values; the worker's steps look them up instead of recomputing them).
Sources == {"VOICE", "KEYBOARD", "MATRIX"}
audio_pipeline ==
    [source \in Sources, content \in Recordings \cup TurnRecordings, stt_ok \in BOOLEAN |->
       pipeline([source |-> source, input_type |-> "AUDIO", content |-> content], stt_ok)]
text_pipeline ==
    [source \in Sources,
     content \in TypedTexts \cup ChatTexts \cup TurnTexts
                   \cup {filter_transcript(raw) : raw \in Transcripts} |->
       pipeline([source |-> source, input_type |-> "TEXT", content |-> content], TRUE)]
pipeline_of(msg, stt_ok) ==
    IF msg.input_type = "AUDIO" THEN audio_pipeline[msg.source, msg.content, stt_ok]
    ELSE text_pipeline[msg.source, msg.content]

chat_prefix == <<"[", "C", "]", " ">>

prompt_of_prefixed(msg, text) == chat_prefix \o text

\* The prompt handed to ask.
prompt_of(msg, text) == IF msg.source = "MATRIX" THEN chat_prefix \o text ELSE text

Tts(what, text, ok) == [out |-> "tts", what |-> what, text |-> text, ok |-> ok]
Wav(what) == [out |-> "wav", what |-> what, text |-> <<>>, ok |-> TRUE]
WavFailed(what) == [out |-> "wav", what |-> what, text |-> <<>>, ok |-> FALSE]

\* player.play_wav(_READY_PATH) outside any try: when it raises, the exception
\* leaves _process_message and is caught by _worker_loop.
ready_wav(wav_ok) == IF wav_ok THEN <<Wav("ready")>> ELSE <<WavFailed("ready")>>
raises(msg, wav_ok) == msg.source = "VOICE" /\ ~wav_ok
ui_before_keywords(msg) == IF msg.input_type = "AUDIO" THEN "PROCESSING" ELSE ui_state

keyword_reply_to_all(msg, what) ==
    <<[room_id |-> msg.room_id, what |-> what, text |-> <<>>, re |-> msg.id]>>

\* The confirmation of a cancel or reset that came by chat: one
\* matrix_outgoing.put((msg.room_id, text)).
keyword_reply(msg, what) ==
    IF msg.source = "MATRIX" /\ msg.room_id # ""
    THEN <<[room_id |-> msg.room_id, what |-> what, text |-> <<>>, re |-> msg.id]>>
    ELSE <<>>

speak_quietly_skipped(what, tts_ok) == <<>>

\* tts.speak with its failure swallowed (the acknowledgements).
speak_quietly(what, tts_ok) == <<Tts(what, <<>>, tts_ok)>>

\* player.play_wav(_ERROR_SOUND_PATH) inside try / except Exception: pass.
error_tone(tone_ok) == IF tone_ok THEN <<Wav("error")>> ELSE <<WavFailed("error")>>

speak_error_no_fallback(error_key, tts_ok, tone_ok) == <<Tts(error_key, <<>>, tts_ok)>>

\* _speak_error: the message, or the error sound when speaking fails; neither
\* failure leaves the function.
speak_error(error_key, tts_ok, tone_ok) ==
    IF tts_ok THEN <<Tts(error_key, <<>>, TRUE)>>
    ELSE <<Tts(error_key, <<>>, FALSE)>> \o error_tone(tone_ok)

route_response_skipped(msg, response, tts_ok, tone_ok) == [audio |-> <<>>, chat |-> <<>>]

route_response_everywhere(msg, response, tts_ok, tone_ok) ==
    [audio |-> <<Tts("response", response, tts_ok), Wav("ready")>>,
     chat |-> <<[room_id |-> msg.room_id, what |-> "response", text |-> response,
                 re |-> msg.id]>>]

\* _route_response: what is played, and what is put on matrix_outgoing.
route_response(msg, response, tts_ok, tone_ok) ==
    [audio |-> IF msg.source = "VOICE"
               THEN (IF tts_ok THEN <<Tts("response", response, TRUE)>>
                     ELSE <<Tts("response", response, FALSE)>> \o error_tone(tone_ok))
                      \o <<Wav("ready")>>
               ELSE <<>>,
     chat |-> IF msg.source = "MATRIX" /\ msg.room_id # ""
              THEN <<[room_id |-> msg.room_id, what |-> "response", text |-> response,
                      re |-> msg.id]>>
              ELSE <<>>]

route_error_skipped(msg, what) == <<>>

route_error_twice(msg, what) ==
    IF msg.source = "MATRIX" /\ msg.room_id # ""
    THEN <<[room_id |-> msg.room_id, what |-> what, text |-> <<>>, re |-> msg.id],
           [room_id |-> msg.room_id, what |-> what, text |-> <<>>, re |-> msg.id]>>
    ELSE <<>>

\* _route_error
route_error(msg, what) ==
    IF msg.source = "MATRIX" /\ msg.room_id # ""
    THEN <<[room_id |-> msg.room_id, what |-> what, text |-> <<>>, re |-> msg.id]>>
    ELSE <<>>

turn_ends_worker_dies(msg, way, audio, chat, ui) ==
    /\ cur' = msg
    /\ step' = way
    /\ spoken' = audio
    /\ matrix_outgoing' = matrix_outgoing \o chat
    /\ ui_state' = ui
    /\ IF audio # <<>> /\ ~audio[Len(audio)].ok /\ audio[Len(audio)].out = "wav"
       THEN unfinished' = unfinished /\ inflight' = inflight \cup {msg.id} /\ wpc' = "exited"
       ELSE unfinished' = unfinished - 1 /\ inflight' = inflight \ {msg.id} /\ wpc' = "check"

\* The end of a turn that made no AI request: _process_message returns and
\* _worker_loop calls task_done.
turn_ends(msg, way, audio, chat, ui) ==
    /\ cur' = msg
    /\ step' = way
    /\ spoken' = audio
    /\ matrix_outgoing' = matrix_outgoing \o chat
    /\ ui_state' = ui
    /\ unfinished' = unfinished - 1
    /\ inflight' = inflight \ {msg.id}
    /\ wpc' = "check"

ai_failed_always_general(msg, err, tts_ok, tone_ok, wav_ok) ==
    turn_ends(msg, "ai_error",
              IF msg.source = "VOICE"
              THEN speak_error("ai_general", tts_ok, tone_ok) \o ready_wav(wav_ok)
              ELSE <<>>,
              IF raises(msg, wav_ok) THEN <<>> ELSE route_error(msg, "ai_error"),
              IF raises(msg, wav_ok) THEN "ERROR" ELSE "LISTENING")

\* The except branch around ask, then task_done.
ai_failed(msg, err, tts_ok, tone_ok, wav_ok) ==
    turn_ends(msg, "ai_error",
              IF msg.source = "VOICE"
              THEN speak_error(IF err = "timeout" THEN "ai_timeout" ELSE "ai_general",
                               tts_ok, tone_ok)
                     \o ready_wav(wav_ok)
              ELSE <<>>,
              IF raises(msg, wav_ok) THEN <<>> ELSE route_error(msg, "ai_error"),
              IF raises(msg, wav_ok) THEN "ERROR" ELSE "LISTENING")

WorkerCheck_ignores_stop ==
    /\ wpc = "check"
    /\ wpc' = "get"
    /\ UNCHANGED <<work_queue, unfinished, enqueued, cur, inflight, step, spoken,
                   matrix_outgoing, ui_state, stop_event, restart_event, mpc>>
    /\ UNCHANGED backend
    /\ UNCHANGED periphery

WorkerCheck_stops_on_restart ==
    /\ wpc = "check"
    /\ wpc' = IF stop_event \/ restart_event THEN "exited" ELSE "get"
    /\ UNCHANGED <<work_queue, unfinished, enqueued, cur, inflight, step, spoken,
                   matrix_outgoing, ui_state, stop_event, restart_event, mpc>>
    /\ UNCHANGED backend
    /\ UNCHANGED periphery

\* The top of the loop: leave when the stop event is set, else wait on the queue.
WorkerCheck ==
    /\ wpc = "check"
    /\ wpc' = IF stop_event THEN "exited" ELSE "get"
    /\ UNCHANGED <<work_queue, unfinished, enqueued, cur, inflight, step, spoken,
                   matrix_outgoing, ui_state, stop_event, restart_event, mpc>>
    /\ UNCHANGED backend
    /\ UNCHANGED periphery

WorkerEmpty_breaks ==
    /\ wpc = "get"
    /\ work_queue = <<>>
    /\ wpc' = "exited"
    /\ UNCHANGED <<work_queue, unfinished, enqueued, cur, inflight, step, spoken,
                   matrix_outgoing, ui_state, stop_event, restart_event, mpc>>
    /\ UNCHANGED backend
    /\ UNCHANGED periphery

\* work_queue.get(timeout=1) raises queue.Empty.
WorkerEmpty ==
    /\ wpc = "get"
    /\ work_queue = <<>>
    /\ wpc' = "check"
    /\ UNCHANGED <<work_queue, unfinished, enqueued, cur, inflight, step, spoken,
                   matrix_outgoing, ui_state, stop_event, restart_event, mpc>>
    /\ UNCHANGED backend
    /\ UNCHANGED periphery

\* The worker takes an envelope and runs _process_message until the turn ends
\* or ask blocks on the external process.
WorkerTurn ==
    /\ may_dequeue
    /\ work_queue # <<>>
    /\ \E stt_ok \in BOOLEAN, tts_ok \in BOOLEAN, tone_ok \in BOOLEAN, wav_ok \in BOOLEAN,
          popen_ok \in BOOLEAN,
          sig \in Signals :
         LET msg == queue_get(work_queue).item
             p == pipeline_of(msg, stt_ok)
         IN  /\ work_queue' = queue_get(work_queue).rest
             /\ UNCHANGED <<enqueued, stop_event, mpc>>
             /\ UNCHANGED periphery
             /\ CASE p.way \in {"no_audio", "too_short"} ->
                       /\ turn_ends(msg, p.way, <<>>, <<>>, ui_state)
                       /\ UNCHANGED restart_event
                       /\ UNCHANGED backend
                  [] p.way = "empty" ->
                       /\ turn_ends(msg, p.way, <<>>, <<>>,
                                    IF msg.input_type = "AUDIO" THEN "PROCESSING" ELSE ui_state)
                       /\ UNCHANGED restart_event
                       /\ UNCHANGED backend
                  [] p.way = "stt_error" ->
                       /\ turn_ends(msg, p.way,
                                    IF msg.source = "VOICE"
                                    THEN speak_error("stt", tts_ok, tone_ok) \o ready_wav(wav_ok)
                                    ELSE <<>>,
                                    IF raises(msg, wav_ok) THEN <<>>
                                    ELSE route_error(msg, "stt_error"),
                                    IF raises(msg, wav_ok) THEN "ERROR" ELSE "LISTENING")
                       /\ UNCHANGED restart_event
                       /\ UNCHANGED backend
                  [] p.way = "cancel" ->
                       /\ turn_ends(msg, p.way,
                                    IF msg.source = "VOICE"
                                    THEN speak_quietly("cancel_ack", tts_ok) \o ready_wav(wav_ok)
                                    ELSE <<>>,
                                    keyword_reply(msg, "cancel"),
                                    IF msg.source = "MATRIX" \/ raises(msg, wav_ok)
                                    THEN ui_before_keywords(msg)
                                    ELSE "LISTENING")
                       /\ IF msg.source = "MATRIX" THEN cancel(sig) ELSE UNCHANGED backend
                       /\ UNCHANGED restart_event
                  [] p.way = "reset" ->
                       /\ turn_ends(msg, p.way,
                                    IF msg.source = "VOICE"
                                    THEN speak_quietly("reset_ack", tts_ok) \o ready_wav(wav_ok)
                                    ELSE <<>>,
                                    keyword_reply(msg, "reset"),
                                    IF msg.source = "MATRIX" \/ raises(msg, wav_ok)
                                    THEN ui_before_keywords(msg)
                                    ELSE "LISTENING")
                       /\ reset_session
                       /\ UNCHANGED restart_event
                  [] p.way = "restart" ->
                       /\ turn_ends(msg, p.way,
                                    IF msg.source = "VOICE"
                                    THEN speak_quietly("restart_ack", tts_ok) ELSE <<>>,
                                    <<>>,
                                    IF msg.input_type = "AUDIO" THEN "PROCESSING" ELSE ui_state)
                       /\ restart_event' = TRUE
                       /\ UNCHANGED backend
                  [] p.way = "ai" ->
                       /\ ask_enter(msg.id, prompt_of(msg, p.text), popen_ok)
                       /\ UNCHANGED restart_event
                       /\ IF popen_ok
                          THEN /\ cur' = msg
                               /\ step' = "asking"
                               /\ spoken' = <<>>
                               /\ ui_state' = "PROCESSING"
                               /\ inflight' = inflight \cup {msg.id}
                               /\ wpc' = "ask"
                               /\ UNCHANGED <<unfinished, matrix_outgoing>>
                          ELSE ai_failed(msg, "oserror", tts_ok, tone_ok, wav_ok)

\* communicate returns in the worker's ask: the ask retries and blocks again, or
\* it ends and the turn is finished by _route_response or by the except branch.
WorkerAskReturns ==
    /\ wpc = "ask"
    /\ \E ev \in ProcEvents, popen_ok \in BOOLEAN, tts_ok \in BOOLEAN, tone_ok \in BOOLEAN,
          wav_ok \in BOOLEAN :
         /\ ask_complete(ev, popen_ok)
         /\ LET call == asks'[Len(asks')]
                routed == route_response(cur, call.response, tts_ok, tone_ok)
            IN  IF call.active
                THEN UNCHANGED <<cur, inflight, step, spoken, matrix_outgoing, ui_state,
                                 unfinished, wpc>>
                ELSE IF call.result = "ok"
                THEN turn_ends(cur, "response", routed.audio, routed.chat, "LISTENING")
                ELSE ai_failed(cur, call.result, tts_ok, tone_ok, wav_ok)
    /\ UNCHANGED <<work_queue, enqueued, stop_event, restart_event, mpc>>
    /\ UNCHANGED periphery

(***************************************************************************)
(* The state after construction: ClaudeCodeBackend.__init__, and run_loop  *)
(* up to its while loop (the worker started, the queue empty).             *)
(***************************************************************************)
NoMsg == [id |-> 0, source |-> "none", input_type |-> "none", content |-> <<>>,
          room_id |-> "", sender |-> "", after_stop |-> FALSE]

Init ==
    /\ cfg \in Configs
    /\ session_started = FALSE
    /\ resume_on_next = cfg.resume_session
    /\ current_process = 0
    /\ procs = {}
    /\ asks = <<>>
    /\ work_queue = <<>>
    /\ unfinished = 0
    /\ enqueued = 0
    /\ wpc = "check"
    /\ cur = NoMsg
    /\ inflight = {}
    /\ step = "idle"
    /\ spoken = <<>>
    /\ matrix_outgoing = <<>>
    /\ ui_state = "LISTENING"
    /\ stop_event = FALSE
    /\ restart_event = FALSE
    /\ mpc = "loop"
    /\ bridge_cfg = ConfiguredBridge
    /\ matrix_sent = <<>>
    /\ keyboard_paused = FALSE
    /\ recorder = SpeechRecorder

Next ==
    \/ KeyboardInput
    \/ VoiceCapture
    \/ MainRestart
    \/ MainInterrupt
    \/ MainJoined
    \/ MainStop
    \/ MainLeaves
    \/ OnMessage
    \/ ResponseSender
    \/ WorkerCheck
    \/ WorkerEmpty
    \/ WorkerTurn
    \/ WorkerAskReturns

Spec == Init /\ [][Next]_vars

\* The assistant as run_chat_loop starts it: the bridge is the only producer.
ChatNext ==
    \/ ChatInterrupt
    \/ MainLeaves
    \/ OnMessage
    \/ ResponseSender
    \/ WorkerCheck
    \/ WorkerEmpty
    \/ WorkerTurn
    \/ WorkerAskReturns

SpecChat == Init /\ [][ChatNext]_vars

\* The worker thread keeps running: the loop test and the queue poll (one
\* second at most) return, and every turn terminates (the external process ends
\* or is killed at the timeout of communicate).
WorkerRuns ==
    /\ WF_vars(WorkerCheck)
    /\ WF_vars(WorkerEmpty)
    /\ WF_vars(WorkerTurn)
    /\ WF_vars(WorkerAskReturns)

FairSpecChat == SpecChat /\ WorkerRuns

FairSpec == Spec /\ WorkerRuns

\* The main thread keeps running: mic.read_chunk returns, so the loop comes back
\* to its test of the restart event, and the finally clause proceeds (its
\* work_queue.join() once no task is unfinished).
MainRuns ==
    /\ WF_vars(MainRestart)
    /\ WF_vars(MainJoined)
    /\ WF_vars(MainStop)
    /\ WF_vars(MainLeaves)

LiveSpec == Spec /\ WorkerRuns /\ MainRuns

(***************************************************************************)
(* SpecTurn: the worker with one envelope on the queue, put by one of the  *)
(* producers, as the unit tests of _worker_loop and _process_message drive *)
(* it.                                                                     *)
(***************************************************************************)
\* The envelopes a producer can have put: run_loop puts no keyboard text that is
\* blank and no empty recording.
VoiceEnvelopes == {AssistantMessage(1, "VOICE", "AUDIO", r, "", "") : r \in TurnRecordings}
KeyboardEnvelopes ==
    {AssistantMessage(1, "KEYBOARD", "TEXT", t, "", "") : t \in TurnTexts \ {TBlank, TNothing}}
ChatEnvelopes ==
    {AssistantMessage(1, "MATRIX", "TEXT", t, bridge_room, u) : t \in TurnTexts, u \in allowed_users}
\* AssistantMessage admits raw audio from any source, and _process_message
\* transcribes whatever audio it is given; MatrixBridge itself transcribes voice
\* notes and queues their text, so an envelope of this kind comes from a caller
\* that hands the recording on (as the unit tests of the worker do).
ChatAudioEnvelopes ==
    {AssistantMessage(1, "MATRIX", "AUDIO", r, bridge_room, u) :
       r \in {[len |-> 1, says |-> TPlain], [len |-> 2, says |-> TPlain]}, u \in allowed_users}

\* put(msg) on the empty queue, by the producer of msg.
OneQueued(msg) ==
    /\ work_queue = <<msg>>
    /\ ui_state = CASE msg.source = "VOICE" -> "RECORDING"
                     [] msg.source = "KEYBOARD" -> "TYPING"
                     [] OTHER -> "LISTENING"

InitTurn ==
    /\ cfg \in Configs
    /\ session_started = FALSE
    /\ resume_on_next = cfg.resume_session
    /\ current_process = 0
    /\ procs = {}
    /\ asks = <<>>
    /\ stop_event = FALSE
    /\ \/ \E msg \in VoiceEnvelopes : OneQueued(msg)
       \/ \E msg \in KeyboardEnvelopes : OneQueued(msg)
       \/ \E msg \in ChatEnvelopes : OneQueued(msg)
       \/ \E msg \in ChatAudioEnvelopes : OneQueued(msg)
    /\ unfinished = 1
    /\ enqueued = 1
    /\ wpc = "check"
    /\ cur = NoMsg
    /\ inflight = {}
    /\ step = "idle"
    /\ spoken = <<>>
    /\ matrix_outgoing = <<>>
    /\ restart_event = FALSE
    /\ mpc = "loop"
    /\ bridge_cfg = ConfiguredBridge
    /\ matrix_sent = <<>>
    /\ keyboard_paused = FALSE
    /\ recorder = SpeechRecorder

TurnNext ==
    \/ WorkerCheck
    \/ WorkerEmpty
    \/ WorkerTurn
    \/ WorkerAskReturns
    \/ ResponseSender

SpecTurn == InitTurn /\ [][TurnNext]_vars

(***************************************************************************)
(* SpecAdapter: the backend driven directly, as its unit tests drive it.   *)
(***************************************************************************)
AskTexts == {<<"a">>, <<"b">>}

\* The calling thread enters ask.
ClientAsk ==
    /\ ~Asking
    /\ Len(asks) < MaxAsks
    /\ \E t \in AskTexts, popen_ok \in BOOLEAN : ask_enter(0, t, popen_ok)
    /\ UNCHANGED program

\* The calling thread's ask goes on after communicate.
ClientAskReturns ==
    /\ \E ev \in ProcEvents, popen_ok \in BOOLEAN : ask_complete(ev, popen_ok)
    /\ UNCHANGED program

\* The calling thread resets the session between two asks.
ClientReset ==
    /\ ~Asking
    /\ reset_session
    /\ UNCHANGED program

\* A second thread calls cancel at any moment.
ThreadCancel ==
    /\ \E sig \in Signals : cancel(sig)
    /\ UNCHANGED program

AdapterNext == ClientAsk \/ ClientAskReturns \/ ClientReset \/ ThreadCancel

SpecAdapter == Init /\ [][AdapterNext]_vars

(***************************************************************************)
(* SpecBridge: the assistant in chat-only mode, the bridge built with any  *)
(* allow-list and session start, text messages and voice notes coming in.  *)
(***************************************************************************)
BridgeConfigs ==
    [room_id : {bridge_room}, user_id : {bridge_user},
     allowed_users : {{}, {"@user", "@jarvis"}},
     start_timestamp : {0, start_timestamp}]

InitBridge ==
    /\ cfg = [resume_session |-> TRUE, system_prompt |-> <<>>]
    /\ session_started = FALSE
    /\ resume_on_next = cfg.resume_session
    /\ current_process = 0
    /\ procs = {}
    /\ asks = <<>>
    /\ work_queue = <<>>
    /\ unfinished = 0
    /\ enqueued = 0
    /\ wpc = "check"
    /\ cur = NoMsg
    /\ inflight = {}
    /\ step = "idle"
    /\ spoken = <<>>
    /\ matrix_outgoing = <<>>
    /\ ui_state = "LISTENING"
    /\ stop_event = FALSE
    /\ restart_event = FALSE
    /\ mpc = "loop"
    /\ bridge_cfg \in BridgeConfigs
    /\ matrix_sent = <<>>
    /\ keyboard_paused = FALSE
    /\ recorder = SpeechRecorder

BridgeNext == ChatNext \/ OnAudioMessage

SpecBridge == InitBridge /\ [][BridgeNext]_vars

(***************************************************************************)
(* SpecRecorder: the recorder driven directly, as its unit tests drive it. *)
(***************************************************************************)
MaxChunks == 4

InitRecorder ==
    /\ cfg = [resume_session |-> TRUE, system_prompt |-> <<>>]
    /\ session_started = FALSE
    /\ resume_on_next = cfg.resume_session
    /\ current_process = 0
    /\ procs = {}
    /\ asks = <<>>
    /\ work_queue = <<>>
    /\ unfinished = 0
    /\ enqueued = 0
    /\ wpc = "check"
    /\ cur = NoMsg
    /\ inflight = {}
    /\ step = "idle"
    /\ spoken = <<>>
    /\ matrix_outgoing = <<>>
    /\ ui_state = "LISTENING"
    /\ stop_event = FALSE
    /\ restart_event = FALSE
    /\ mpc = "loop"
    /\ bridge_cfg = ConfiguredBridge
    /\ matrix_sent = <<>>
    /\ keyboard_paused = FALSE
    /\ \E s \in SilenceFrameLimits, m \in MaxFrameLimits : recorder = NewRecorder(s, m)

\* recorder.start()
RecorderStart ==
    /\ recorder' = start(recorder)
    /\ UNCHANGED backend
    /\ UNCHANGED <<work_queue, unfinished, enqueued, wpc, cur, inflight, step, spoken,
                   matrix_outgoing, ui_state, stop_event, restart_event, mpc>>
    /\ UNCHANGED <<bridge_cfg, matrix_sent, keyboard_paused>>

\* recorder.process_chunk(audio_chunk)
RecorderFeed ==
    /\ recorder.recording => Len(recorder.audio_buffer) < MaxChunks
    /\ \E audio_chunk \in Chunks : recorder' = process_chunk(recorder, audio_chunk)
    /\ UNCHANGED backend
    /\ UNCHANGED <<work_queue, unfinished, enqueued, wpc, cur, inflight, step, spoken,
                   matrix_outgoing, ui_state, stop_event, restart_event, mpc>>
    /\ UNCHANGED <<bridge_cfg, matrix_sent, keyboard_paused>>

RecorderNext == RecorderStart \/ RecorderFeed

SpecRecorder == InitRecorder /\ [][RecorderNext]_vars

(***************************************************************************)
(* Properties of the backend (checked under SpecAdapter).                  *)
(***************************************************************************)
\* The directive of a fresh session: the system prompt iff one is configured.
FreshDirective == IF cfg.system_prompt # <<>> THEN {"--system-prompt"} ELSE {}
\* The failures _run_command raises as AIBackendError.
BackendErrors == {"exit", "empty", "timeout"}
Ended == asks # <<>> /\ ~Call.active
Before == asks[Len(asks) - 1]

\* C3 (as claimed): an ask whose outstanding process was terminated by cancel
\* surfaces a failure, from every session state, and leaves no process handle.
C3_CancelledAskFails ==
    (Ended /\ Call.cancelled # {}) => (Call.result # "ok" /\ current_process = 0)

\* C5 (as claimed): when the resume attempt and the fallback both fail within
\* one ask, the adapter remains in ResumePending.
C5_StaysResumePending ==
    (Ended /\ ~Call.reset /\ Call.from = "ResumePending" /\ Len(Call.cmds) = 2
       /\ Call.result \in BackendErrors)
    => SessionState = "ResumePending"

\* C5 (amended): when the resume attempt and the fallback both fail within one
\* ask, the error is surfaced and the adapter is left in Fresh, so the next ask
\* sends the fresh-session directive, not resume.
C5_FailedFallbackLeavesFresh ==
    /\ (Ended /\ ~Call.reset /\ Call.from = "ResumePending" /\ Len(Call.cmds) = 2
          /\ Call.result # "ok")
       => (SessionState = "Fresh" /\ Call.response = <<>>)
    /\ (Len(asks) >= 2 /\ ~Before.reset /\ Before.from = "ResumePending"
          /\ Len(Before.cmds) = 2 /\ Before.result # "ok")
       => (Call.from = "Fresh" /\ Call.cmds[1].flags = FreshDirective)

C5_Witness ==
    /\ Len(asks) >= 2 /\ ~Before.reset /\ Before.from = "ResumePending"
    /\ Len(Before.cmds) = 2 /\ Before.result \in BackendErrors
    /\ Call.cmds[1].flags = {"--system-prompt"}

\* C6 (as claimed): every ask spawns exactly one external process invocation.
C6_OneSpawnPerAsk == Ended => Len(Call.cmds) = 1

\* C6 (amended): an ask invokes Popen once, or twice when it started in
\* ResumePending and the resume attempt failed with an AIBackendError (resume
\* first, then fresh); never more, and at most one process is outstanding.
C6_OneOrTwoSpawns ==
    /\ Cardinality(procs) <= 1
    /\ asks # <<>> =>
         /\ Len(Call.cmds) \in {1, 2}
         /\ Len(Call.cmds) = 2 =>
              /\ Call.from = "ResumePending"
              /\ Call.cmds[1].flags = {"--resume"}
              /\ Call.cmds[2].flags = FreshDirective
              /\ Call.outcomes[1].err \in BackendErrors
         /\ (Call.from = "ResumePending" /\ Call.outcomes # <<>>
               /\ Call.outcomes[1].err \in BackendErrors) => Len(Call.cmds) = 2
         /\ (~Call.active /\ Call.from # "ResumePending") => Len(Call.cmds) = 1

C6_Witness ==
    /\ Ended /\ Len(Call.cmds) = 2 /\ Call.cancelled = {1}
    /\ Len(asks) >= 2 /\ Len(Before.cmds) = 1 /\ Before.result = "oserror"

\* C7 (as claimed): after a failed ask the next ask is issued with the directive
\* the failed one started from, and started stays false unless an exchange
\* has succeeded.
C7_NextDirectiveUnchanged ==
    (Len(asks) >= 2 /\ ~Before.reset /\ Before.result \in BackendErrors)
    => (Call.cmds[1].flags = Before.cmds[1].flags /\ Call.from = Before.from)

\* C7 (amended): a failed ask leaves started as it was; the next ask starts
\* from the same state if that was Fresh or Continuing, and from Fresh if it
\* was ResumePending (the fallback has cleared the resume flag); a failed
\* first ask is never followed by a continue directive.
C7_FailureDoesNotAdvance ==
    /\ (Ended /\ ~Call.reset /\ Call.result \in BackendErrors)
       => (session_started <=> Call.from = "Continuing")
    /\ (Len(asks) >= 2 /\ ~Before.reset /\ Before.result \in BackendErrors)
       => /\ Call.from = IF Before.from = "ResumePending" THEN "Fresh" ELSE Before.from
          /\ Call.cmds[1].flags = IF Before.from = "ResumePending" THEN FreshDirective
                                   ELSE Before.cmds[1].flags
          /\ Before.from # "Continuing" => "--continue" \notin Call.cmds[1].flags

C7_Witness ==
    /\ Len(asks) = 2 /\ ~Before.reset /\ Before.result = "empty"
    /\ Before.from = "Fresh" /\ Call.cmds[1].flags = {"--system-prompt"}

C9_ContinuingAfterSuccess ==
    /\ (Ended /\ Call.result = "ok" /\ ~Call.reset)
       => (session_started /\ ~resume_on_next /\ SessionState = "Continuing")
    /\ \A i \in 1..Len(asks) :
         (i < Len(asks) /\ asks[i].result = "ok" /\ \A k \in i..(Len(asks) - 1) : ~asks[k].reset)
         => /\ Call.from = "Continuing"
            /\ \A c \in 1..Len(Call.cmds) : Call.cmds[c].flags = {"--continue"}

C9_Witness ==
    /\ Len(asks) = 3 /\ asks[1].result = "ok" /\ ~asks[1].reset
    /\ asks[2].result = "timeout" /\ ~asks[2].reset
    /\ Call.cmds[1].flags = {"--continue"}

\* C10: the session starts in ResumePending iff resume_session is configured,
\* else in Fresh; the directive of every external call is the one of the
\* session state it is built in (continue, resume, or the system prompt iff it
\* is configured); no command carries two directives, and started and the
\* resume flag are never both set.
DirectiveOf(state) ==
    CASE state = "Continuing" -> {"--continue"}
      [] state = "ResumePending" -> {"--resume"}
      [] OTHER -> FreshDirective

C10_Directives ==
    /\ ~(session_started /\ resume_on_next)
    /\ asks # <<>> =>
         /\ Call.cmds[1].flags = DirectiveOf(Call.from)
         /\ \A c \in 1..Len(Call.cmds) :
              /\ Cardinality(Call.cmds[c].flags) <= 1
              /\ Call.cmds[c].system_prompt =
                   (IF "--system-prompt" \in Call.cmds[c].flags THEN cfg.system_prompt ELSE <<>>)
              /\ ("--system-prompt" \in Call.cmds[c].flags) =>
                   (cfg.system_prompt # <<>> /\ (c = 2 \/ Call.from = "Fresh"))

IsCancelCapture(msg) ==
    /\ msg.source = "VOICE" /\ msg.input_type = "AUDIO"
    /\ pipeline_of(msg, TRUE).way = "cancel"

\* C1: the worker invokes ask for the envelopes that reach the AI step in their
\* enqueue order (the id of an envelope is its position in the order of the
\* puts): the ids of the asks made so far increase, and every envelope still
\* queued was put after every envelope already taken, whatever its source.
C1_AskOrderIsEnqueueOrder ==
    /\ \A i \in 1..Len(asks) : \A j \in 1..Len(asks) : i < j => asks[i].id < asks[j].id
    /\ \A i \in 1..Len(work_queue) :
         /\ cur.id < work_queue[i].id
         /\ asks # <<>> => Call.id < work_queue[i].id
         /\ \A j \in 1..Len(work_queue) : i < j => work_queue[i].id < work_queue[j].id

\* Two asks have been made, for the first and the second envelope, the second
\* one a chat message.
C1_Witness ==
    /\ Len(asks) = 2 /\ asks[1].id = 1 /\ Call.id = 2
    /\ cur.source = "MATRIX" /\ Call.text = prompt_of(cur, TPlain)

\* C2: at most one envelope is in flight and at most one ask and one external
\* process is outstanding; while an ask is outstanding the worker is inside
\* it, for the one envelope in flight, and that envelope is not yet task_done.
C2_SingleFlight ==
    /\ Cardinality(inflight) <= 1
    /\ Cardinality(procs) <= 1
    /\ Cardinality({i \in 1..Len(asks) : asks[i].active}) <= 1
    /\ Asking => /\ wpc = "ask" /\ inflight = {Call.id} /\ cur.id = Call.id
                 /\ unfinished >= 1 + Len(work_queue)
                 /\ \E q \in procs : q.pid = current_process
    /\ ~Asking => inflight = {} /\ procs = {} /\ current_process = 0

\* An envelope waits in the queue while the ask of the envelope before it is
\* outstanding.
C2_Witness ==
    /\ Asking /\ inflight = {1} /\ work_queue # <<>> /\ Head(work_queue).id = 2
    /\ pipeline_of(Head(work_queue), TRUE).way = "ai"

\* The worker is blocked inside ask for a voice turn and the main thread
\* captures a recording whose transcript holds a cancel keyword.
CancelCapturedDuringAsk ==
    /\ wpc = "ask" /\ cur.source = "VOICE"
    /\ Len(work_queue') = Len(work_queue) + 1
    /\ IsCancelCapture(work_queue'[Len(work_queue')])

InitialState == IF cfg.resume_session THEN "ResumePending" ELSE "Fresh"

\* C11: reset_session forces the adapter to Fresh from any state; calling it
\* again changes nothing; before any exchange it is safe (no process, no
\* handle, the adapter in Fresh); and the next ask after it sends the
\* fresh-session directive, never --continue or --resume, and is not retried.
C11_ResetForcesFresh ==
    /\ (asks # <<>> /\ Call.reset)
       => /\ SessionState = "Fresh" /\ ~session_started /\ ~resume_on_next
          /\ ~ENABLED (ClientReset /\ vars' # vars)
    /\ (Len(asks) >= 2 /\ Before.reset)
       => /\ Call.from = "Fresh" /\ Call.cmds[1].flags = FreshDirective
          /\ Len(Call.cmds) = 1
    /\ asks = <<>>
       => /\ SessionState \in {InitialState, "Fresh"}
          /\ current_process = 0 /\ procs = {}
          /\ SessionState = "Fresh" => ~ENABLED (ClientReset /\ vars' # vars)
    /\ (Len(asks) = 1 /\ Call.from # InitialState)
       => /\ Call.from = "Fresh" /\ Call.cmds[1].flags = FreshDirective
          /\ Len(Call.cmds) = 1

\* reset_session was called in Continuing, after a successful ask of a backend
\* built with resume_session, and the ask after it sent the system prompt.
C11_Witness ==
    /\ Len(asks) = 2 /\ cfg.resume_session /\ cfg.system_prompt # <<>>
    /\ Before.reset /\ Before.result = "ok"
    /\ Call.from = "Fresh" /\ Call.cmds[1].flags = {"--system-prompt"}

\* A step in which cancel signals the outstanding process.
CancelSignals ==
    \E q \in procs : /\ q.pid = current_process /\ q.st = "running"
                     /\ \E sig \in Signals : [q EXCEPT !.st = sig] \in procs'

\* C12 (as claimed): cancel terminates the outstanding process (SIGTERM, or
\* SIGKILL after the grace period) and changes nothing when there is none; it
\* leaves both session flags unchanged; and the conversational state after a
\* cancelled turn equals the state before that turn began.
C12_CancelKeepsState ==
    /\ [][ /\ CancelSignals
              => /\ UNCHANGED <<cfg, session_started, resume_on_next, current_process>>
                 /\ Len(asks') = Len(asks)
           /\ (~Asking /\ ~Asking') => (procs' = procs /\ current_process' = current_process) ]_vars
    /\ []((Ended /\ Call.cancelled # {} /\ ~Call.reset) => SessionState = Call.from)

(***************************************************************************)
(* Properties of shutdown and of the worker loop.                          *)
(***************************************************************************)
\* The envelopes put before the stop event was set that the worker has not
\* finished: still queued, or taken and not yet task_done.
Unprocessed ==
    {work_queue[i].id : i \in {j \in 1..Len(work_queue) : ~work_queue[j].after_stop}}
      \cup {k \in inflight : k = cur.id /\ ~cur.after_stop}

MainGone == mpc \in {"restart_requested", "interrupted"}

\* C13 (as claimed): when run_loop or run_chat_loop shuts down, every envelope
\* put before the stop event was set has been fully processed when the worker
\* exits and when the loop function returns: none is left in the queue and
\* none is abandoned in the middle of its turn.
C13_ShutdownDrains == (wpc = "exited" \/ MainGone) => Unprocessed = {}

\* C14: once the stop event is set the worker finishes the turn it is in (an
\* outstanding ask is left alone: setting the event touches neither the worker
\* nor the backend, no process is signalled, and the turn ends with its reply
\* routed and task_done), takes no envelope after it has seen the event at
\* the top of its loop, and exits.
C14_WorkerStopsCooperatively ==
    /\ [][ /\ (~stop_event /\ stop_event')
              => (UNCHANGED backend /\ UNCHANGED <<wpc, cur, inflight, step, work_queue, unfinished>>)
           /\ stop_event => stop_event'
           /\ (stop_event /\ wpc = "check") => wpc' \in {"check", "exited"}
           /\ wpc = "exited"
              => /\ wpc' = "exited" /\ UNCHANGED backend
                 /\ UNCHANGED <<cur, inflight, step>>
                 /\ Len(work_queue') >= Len(work_queue) /\ unfinished' >= unfinished
           /\ (stop_event /\ wpc = "ask")
              => /\ \A q \in procs' : q.st = "running"
                 /\ wpc' # "ask"
                    => /\ wpc' = "check" /\ step' \in {"response", "ai_error"}
                       /\ unfinished' = unfinished - 1 /\ inflight' = {}
                       /\ Len(matrix_outgoing') = Len(matrix_outgoing) + 1 ]_vars
    /\ stop_event ~> (wpc = "exited")

\* The stop event is set while the worker is inside ask, the process running.
C14_Witness ==
    /\ stop_event /\ wpc = "ask" /\ Asking /\ inflight = {cur.id}
    /\ \E q \in procs : q.pid = current_process /\ q.st = "running"

\* The last turn ended in an exception that left _process_message (the ready
\* sound could not be played).
TurnRaised == spoken # <<>> /\ spoken[Len(spoken)] = WavFailed("ready")

\* C15: when _process_message raises for an envelope, _worker_loop still calls
\* task_done for it, once (every put is matched by one task_done when its turn
\* has ended), the worker stays in its loop and polls the queue again; only the
\* stop event makes it exit.
C15_WorkerSurvivesException ==
    /\ [](unfinished = Len(work_queue) + Cardinality(inflight))
    /\ [](wpc = "exited" => stop_event)
    /\ [][ /\ ((Len(work_queue') < Len(work_queue) \/ wpc = "ask") /\ wpc' # "ask" /\ TurnRaised')
              => /\ wpc' = "check" /\ unfinished' = unfinished - 1 /\ inflight' = {}
                 /\ work_queue' = IF wpc = "ask" THEN work_queue ELSE Tail(work_queue)
           /\ (wpc = "check" /\ ~stop_event) => wpc' \in {"check", "get"} ]_vars

\* A turn has raised, the worker is back at the top of its loop with the stop
\* event not set, and the next envelope waits in the queue.
C15_Witness ==
    /\ TurnRaised /\ wpc = "get" /\ ~stop_event /\ cur.id = 1
    /\ work_queue # <<>> /\ Head(work_queue).id = 2 /\ unfinished = 1

\* Envelope k has been put and its turn has not ended.
Pending(k) == (\E i \in 1..Len(work_queue) : work_queue[i].id = k) \/ k \in inflight
\* Envelope k has been put and the worker has finished its turn.
Processed(k) == enqueued >= k /\ ~Pending(k)

\* C16: with the worker running and every turn terminating, each envelope put
\* by any producer is eventually taken and its turn finished, unless the stop
\* event is set first.
C16_NoStarvation == \A k \in 1..MaxEnq : Pending(k) ~> (Processed(k) \/ stop_event)

\* The second envelope, a chat message put behind an envelope of another
\* source, has had its turn, and the stop event is not set.
C16_Witness ==
    /\ ~stop_event /\ enqueued = 2 /\ Processed(1) /\ Processed(2)
    /\ cur.id = 2 /\ cur.source = "MATRIX" /\ step = "response"
    /\ Len(asks) = 1

(***************************************************************************)
(* Properties of one turn (checked under SpecTurn).                        *)
(***************************************************************************)
\* The text the keyword checks of a turn see, normalised as they normalise it.
Normalized(msg) == lower(strip(pipeline_of(msg, TRUE).text))
Mentions(keywords, msg) == has_keyword(keywords, Normalized(msg))
\* The worker takes an envelope and its turn gets as far as the keyword checks.
ReachesKeywordChecks ==
    /\ wpc = "get" /\ Len(work_queue') < Len(work_queue)
    /\ step' \in {"cancel", "reset", "restart", "asking", "ai_error"}

\* C17: the keyword checks run in the order cancel, reset, restart.  A text with
\* a cancel keyword gets the cancel handling only, whatever else it contains:
\* reset_session is not invoked (the session flags stay), the restart signal is
\* not set and no ask is made.  A text with a reset keyword and no cancel keyword
\* gets the reset handling only, also when it contains a restart keyword: the
\* restart signal is not set and no ask is made.
C17_KeywordPriority ==
    [][ ReachesKeywordChecks =>
          /\ Mentions(cancel_keywords, cur')
                => /\ step' = "cancel"
                   /\ UNCHANGED <<session_started, resume_on_next, restart_event, asks>>
          /\ (~Mentions(cancel_keywords, cur') /\ Mentions(reset_keywords, cur'))
                => /\ step' = "reset"
                   /\ ~session_started' /\ ~resume_on_next'
                   /\ UNCHANGED <<restart_event, asks>> ]_vars

\* A turn whose text has all three keywords, the restart keyword first and the
\* cancel keyword last, was handled as a cancel: a session to resume is still
\* pending, no restart is signalled, no ask was made.
C17_Witness ==
    /\ cur.source = "KEYBOARD" /\ cur.content = TAllKeywords
    /\ step = "cancel" /\ wpc = "check"
    /\ resume_on_next /\ ~restart_event /\ asks = <<>>

\* The text of the turn has a restart keyword and neither a cancel nor a reset
\* keyword.
RestartText(msg) ==
    /\ Mentions(restart_keywords, msg)
    /\ ~Mentions(cancel_keywords, msg) /\ ~Mentions(reset_keywords, msg)

\* C18: a Chat envelope whose text has a restart keyword (and no cancel or reset
\* keyword) goes to ask like any other chat text, with the chat prefix, and the
\* restart signal stays unset; a Voice or Keyboard envelope with the same text
\* sets the restart signal and no ask is made for it.
C18_RestartOnlyLocal ==
    /\ [][ (ReachesKeywordChecks /\ RestartText(cur')) =>
              IF cur'.source = "MATRIX"
              THEN /\ step' \in {"asking", "ai_error"}
                   /\ Len(asks') = Len(asks) + 1
                   /\ Call'.id = cur'.id
                   /\ Call'.text = chat_prefix \o pipeline_of(cur', TRUE).text
                   /\ ~restart_event'
              ELSE /\ step' = "restart"
                   /\ restart_event'
                   /\ asks' = asks ]_vars
    /\ [][restart_event' # restart_event => cur'.source \in {"VOICE", "KEYBOARD"}]_vars

\* A chat message with the restart keyword is being asked of the AI, and no
\* restart is signalled.
C18_Witness ==
    /\ cur.source = "MATRIX" /\ cur.input_type = "TEXT" /\ cur.content = TRestart
    /\ step = "asking" /\ Asking /\ Call.text = chat_prefix \o TRestart
    /\ ~restart_event

(***************************************************************************)
(* Restart (checked under LiveSpec).                                       *)
(***************************************************************************)
\* run_loop is left, or being left, by a KeyboardInterrupt or a device error.
Interrupted == mpc \in {"join_interrupt", "stop_interrupt", "wait_interrupt", "interrupted"}

\* C19: once a turn has set the restart signal, run_loop raises
\* _RestartRequested, unless an interrupt takes it out of its loop first; this
\* holds whether or not the spoken acknowledgement of the restart succeeded.
\* When the exception leaves run_loop the queue has been joined and the stop
\* event is set; only a Voice or Keyboard turn sets the signal.
C19_RestartEventuallyRaised ==
    /\ restart_event ~> (mpc = "restart_requested" \/ Interrupted)
    /\ [](mpc \in {"join_restart", "stop_restart", "wait_restart", "restart_requested"}
            => restart_event)
    /\ [](mpc = "restart_requested" => stop_event)
    /\ [][(mpc' = "stop_restart" /\ mpc # "stop_restart") => unfinished = 0]_vars
    /\ [][restart_event' # restart_event
            => /\ cur'.source \in {"VOICE", "KEYBOARD"} /\ step' = "restart"
               /\ restart_event']_vars

\* _RestartRequested has left run_loop after a spoken restart command whose
\* acknowledgement could not be spoken.
C19_Witness ==
    /\ mpc = "restart_requested" /\ stop_event /\ restart_event
    /\ cur.source = "VOICE" /\ step = "restart"
    /\ spoken = <<Tts("restart_ack", <<>>, FALSE)>>

(***************************************************************************)
(* The reset turn (checked under SpecTurn).                                *)
(***************************************************************************)
\* The text of the turn has a reset keyword and no cancel keyword.
ResetText(msg) == Mentions(reset_keywords, msg) /\ ~Mentions(cancel_keywords, msg)

\* C20: a turn whose text has a reset keyword and no cancel keyword calls
\* reset_session (both session flags are cleared, the process handle and the
\* processes are left alone) and makes no ask; its acknowledgement goes to the
\* channel the envelope came from: for Voice the first thing played is the spoken
\* acknowledgement, for Chat one reply is queued for the room of the message and
\* nothing is spoken, for Keyboard nothing is spoken and no reply is queued.
C20_ResetTurn ==
    [][ (ReachesKeywordChecks /\ ResetText(cur')) =>
          /\ step' = "reset"
          /\ ~session_started' /\ ~resume_on_next'
          /\ Len(asks') = Len(asks) /\ ~Asking'
          /\ UNCHANGED <<current_process, procs, restart_event>>
          /\ CASE cur'.source = "VOICE" ->
                     /\ spoken' # <<>>
                     /\ spoken'[1].out = "tts" /\ spoken'[1].what = "reset_ack"
                     /\ \A i \in 2..Len(spoken') : spoken'[i].out # "tts"
                     /\ matrix_outgoing' = matrix_outgoing
               [] cur'.source = "KEYBOARD" ->
                     /\ spoken' = <<>>
                     /\ matrix_outgoing' = matrix_outgoing
               [] cur'.source = "MATRIX" ->
                     /\ spoken' = <<>>
                     /\ matrix_outgoing' =
                          Append(matrix_outgoing,
                                 [room_id |-> cur'.room_id, what |-> "reset", text |-> <<>>,
                                  re |-> cur'.id]) ]_vars

\* A spoken reset of a backend that was to resume its last session: the
\* acknowledgement was spoken, the resume is off, no ask was made.
C20_Witness ==
    /\ cur.source = "VOICE" /\ cur.content.says = TResetRestart /\ step = "reset"
    /\ cfg.resume_session /\ ~resume_on_next /\ ~session_started
    /\ spoken = <<Tts("reset_ack", <<>>, TRUE), Wav("ready")>>
    /\ asks = <<>> /\ wpc = "check" /\ unfinished = 0

(***************************************************************************)
(* The cancel turn (checked under SpecTurn).                               *)
(***************************************************************************)
\* C21: a turn whose text has a cancel keyword makes no ask and does not call
\* reset_session (the session flags stay, the last call is not marked as
\* followed by a reset).  For Voice the first thing played is the spoken
\* acknowledgement and no chat reply is queued; for Keyboard nothing is played
\* and nothing is queued, the display returns to listening; for Chat nothing is
\* played, exactly one cancel confirmation for the room of the message is
\* queued, and cancel() of the backend runs: with no ask in progress in the
\* worker's own thread it finds no process and changes nothing.
C21_CancelTurn ==
    [][ (ReachesKeywordChecks /\ Mentions(cancel_keywords, cur')) =>
          /\ step' = "cancel"
          /\ Len(asks') = Len(asks) /\ ~Asking'
          /\ UNCHANGED <<session_started, resume_on_next, restart_event>>
          /\ asks # <<>> => Call'.reset = Call.reset
          /\ CASE cur'.source = "VOICE" ->
                     /\ spoken' # <<>>
                     /\ spoken'[1].out = "tts" /\ spoken'[1].what = "cancel_ack"
                     /\ \A i \in 2..Len(spoken') : spoken'[i].out # "tts"
                     /\ matrix_outgoing' = matrix_outgoing
                     /\ UNCHANGED backend
               [] cur'.source = "KEYBOARD" ->
                     /\ spoken' = <<>>
                     /\ matrix_outgoing' = matrix_outgoing
                     /\ ui_state' = "LISTENING"
                     /\ UNCHANGED backend
               [] cur'.source = "MATRIX" ->
                     /\ spoken' = <<>>
                     /\ matrix_outgoing' =
                          Append(matrix_outgoing,
                                 [room_id |-> cur'.room_id, what |-> "cancel", text |-> <<>>,
                                  re |-> cur'.id])
                     /\ current_process = 0 /\ UNCHANGED backend ]_vars

\* A chat message with the cancel and the reset keyword was handled: one cancel
\* confirmation is queued for its room, the session to resume is still pending.
C21_Witness ==
    /\ cur.source = "MATRIX" /\ cur.input_type = "TEXT" /\ cur.content = TCancelReset
    /\ step = "cancel"
    /\ matrix_outgoing = <<[room_id |-> bridge_room, what |-> "cancel", text |-> <<>>,
                            re |-> cur.id]>>
    /\ resume_on_next /\ asks = <<>> /\ spoken = <<>> /\ wpc = "check"

(***************************************************************************)
(* Turns that end before the keyword checks (checked under SpecTurn).      *)
(***************************************************************************)
\* The worker takes an envelope from the queue.
Dequeues == wpc = "get" /\ Len(work_queue') < Len(work_queue)
\* The turn of this step leaves no trace outside the worker: nothing played,
\* nothing queued for the chat, the backend, the display and the restart signal
\* untouched, and the worker back at its loop test with the task done.
SilentTurn ==
    /\ spoken' = <<>> /\ matrix_outgoing' = matrix_outgoing
    /\ UNCHANGED backend
    /\ UNCHANGED periphery
    /\ UNCHANGED <<restart_event, stop_event>>
    /\ wpc' = "check" /\ unfinished' = unfinished - 1 /\ inflight' = {}
\* Where a turn stands after the step that took an envelope with this text
\* through the keyword checks.
StepOf(way) == IF way = "ai" THEN {"asking", "ai_error"} ELSE {way}

\* C22: with min_recording_sec > 0, a recording of fewer than
\* min_recording_sec * sample_rate * 2 bytes is dropped before transcription:
\* nothing is played or queued, no ask is made, the display is left as it was.
\* A recording of exactly that many bytes, or more, is handed to the
\* transcriber: the turn ends in the transcription error or goes the way of
\* its transcript.
C22_ShortAudioDropped ==
    [][ (Dequeues /\ cur'.input_type = "AUDIO" /\ min_recording_sec > 0) =>
          IF cur'.content.len < min_recording_sec * sample_rate * 2
          THEN /\ step' = "too_short"
               /\ SilentTurn
               /\ ui_state' = ui_state
          ELSE \/ step' = "stt_error"
               \/ /\ step' \in StepOf(pipeline_of(cur', TRUE).way)
                  /\ step' \notin {"no_audio", "too_short", "stt_error"} ]_vars

\* A recording one byte short of the minimum was dropped.
C22_Witness ==
    /\ cur.input_type = "AUDIO"
    /\ cur.content.len = min_recording_sec * sample_rate * 2 - 1 /\ cur.content.len > 0
    /\ step = "too_short" /\ spoken = <<>> /\ matrix_outgoing = <<>> /\ asks = <<>>
    /\ ui_state = "RECORDING" /\ wpc = "check" /\ unfinished = 0

\* The text of the turn, after transcription and filtering, and whether
\* anything but blanks is left of it.
TextOf(msg) == pipeline_of(msg, TRUE).text
BlankText(msg) == TextOf(msg) = <<>> \/ strip(TextOf(msg)) = <<>>

\* C23: a turn whose text is empty or blank after transcription and filtering
\* is dropped: no keyword handling (no cancel, reset or restart), no ask, nothing
\* played, no chat reply and no error notice queued; the worker goes on.
C23_BlankTextDropped ==
    [][ (Dequeues /\ step' \notin {"no_audio", "too_short", "stt_error"} /\ BlankText(cur')) =>
          /\ step' = "empty"
          /\ SilentTurn ]_vars

\* Typed text that the filter empties was dropped, with a session to resume
\* still pending.
C23_Witness ==
    /\ cur.source = "KEYBOARD" /\ cur.content = TFiltered /\ step = "empty"
    /\ spoken = <<>> /\ matrix_outgoing = <<>> /\ asks = <<>> /\ resume_on_next
    /\ ~restart_event /\ wpc = "check" /\ unfinished = 0

\* C24: when the transcription of a recording fails, the turn makes no ask and
\* ends with the task done and the worker back at its loop test.  A Voice turn
\* speaks the transcription-error notice first, and plays the error sound right
\* after it when speaking failed; no chat reply is queued for it.  A Chat turn
\* plays nothing and gets exactly one error text queued for its own room.
C24_TranscriptionFailure ==
    [][ (Dequeues /\ step' = "stt_error") =>
          /\ cur'.input_type = "AUDIO"
          /\ UNCHANGED backend
          /\ UNCHANGED restart_event
          /\ wpc' = "check" /\ unfinished' = unfinished - 1 /\ inflight' = {}
          /\ CASE cur'.source = "VOICE" ->
                     /\ spoken' # <<>>
                     /\ spoken'[1].out = "tts" /\ spoken'[1].what = "stt"
                     /\ ~spoken'[1].ok => /\ Len(spoken') >= 2
                                          /\ spoken'[2].out = "wav"
                                          /\ spoken'[2].what = "error"
                     /\ matrix_outgoing' = matrix_outgoing
               [] cur'.source = "MATRIX" ->
                     /\ spoken' = <<>>
                     /\ matrix_outgoing' =
                          Append(matrix_outgoing,
                                 [room_id |-> cur'.room_id, what |-> "stt_error", text |-> <<>>,
                                  re |-> cur'.id])
               [] OTHER -> FALSE ]_vars

\* The transcription of a spoken command failed and so did the spoken notice:
\* the error sound was played, no ask was made, the worker polls the queue again.
C24_Witness ==
    /\ cur.source = "VOICE" /\ step = "stt_error"
    /\ spoken = <<Tts("stt", <<>>, FALSE), Wav("error"), Wav("ready")>>
    /\ asks = <<>> /\ matrix_outgoing = <<>> /\ wpc = "get" /\ unfinished = 0

(***************************************************************************)
(* The AI request and the routing of its outcome (checked under SpecTurn). *)
(***************************************************************************)
\* What was handed to tts.speak in the turn.
Synthesized(audio) == SelectSeq(audio, LAMBDA o : o.out = "tts")

\* C25: a turn that gets past the keyword checks calls ask once: the ask
\* history grows by one call, made for this envelope, in the step that takes
\* the envelope and in no other step; the prompt is the text of the turn as it
\* is for Voice and Keyboard, and the chat prefix followed by that text for Chat.
\* When the ask succeeds, a Voice turn calls tts.speak once, with the response
\* that ask returned.
C25_AskOnceThenSpeakOnce ==
    /\ [][ (Dequeues /\ step' \in {"asking", "ai_error"}) =>
              /\ Len(asks') = Len(asks) + 1
              /\ Call'.id = cur'.id
              /\ Call'.text = IF cur'.source = "MATRIX"
                              THEN chat_prefix \o TextOf(cur') ELSE TextOf(cur') ]_vars
    /\ [][ Len(asks') # Len(asks) => (Dequeues /\ step' \in {"asking", "ai_error"}) ]_vars
    /\ [][ (wpc = "ask" /\ step' = "response") =>
              /\ Call'.result = "ok" /\ Call'.id = cur'.id /\ cur' = cur
              /\ cur.source = "VOICE" =>
                    Synthesized(spoken') = <<Tts("response", Call'.response, spoken'[1].ok)>> ]_vars

\* A spoken command went to the AI as it was transcribed, and the response was
\* spoken.
C25_Witness ==
    /\ cur.source = "VOICE" /\ cur.content.says = TPlain /\ step = "response"
    /\ Len(asks) = 1 /\ Call.text = TPlain /\ Call.result = "ok" /\ Call.response # <<>>
    /\ spoken = <<Tts("response", Call.response, TRUE), Wav("ready")>>

\* The ask of the current turn returns a response and the turn ends.
ResponseRouted == wpc = "ask" /\ step' = "response"

\* C26: a response goes to the channel of its envelope and to no other.  For
\* Voice it is handed to tts.speak and nothing is put on matrix_outgoing; for
\* Keyboard nothing is played and nothing is put; for Chat exactly one entry is
\* put, the response for the room of the envelope, and nothing is played.
C26_ResponseToOwnChannel ==
    [][ ResponseRouted =>
          CASE cur.source = "VOICE" ->
                 /\ spoken' # <<>>
                 /\ spoken'[1].out = "tts" /\ spoken'[1].text = Call'.response
                 /\ matrix_outgoing' = matrix_outgoing
            [] cur.source = "KEYBOARD" ->
                 /\ spoken' = <<>>
                 /\ matrix_outgoing' = matrix_outgoing
            [] cur.source = "MATRIX" ->
                 /\ spoken' = <<>>
                 /\ matrix_outgoing' =
                      Append(matrix_outgoing,
                             [room_id |-> cur.room_id, what |-> "response",
                              text |-> Call'.response, re |-> cur.id])
            [] OTHER -> FALSE ]_vars

\* The response to a chat message is queued for the room of the message, and
\* nothing was played.
C26_Witness ==
    /\ cur.source = "MATRIX" /\ cur.room_id = bridge_room /\ step = "response"
    /\ Call.result = "ok" /\ Call.response # <<>>
    /\ matrix_outgoing = <<[room_id |-> bridge_room, what |-> "response",
                            text |-> Call.response, re |-> cur.id]>>
    /\ spoken = <<>>

\* The ask of the turn fails: at once (the process could not be started) or
\* when its last attempt ends.
AskFailed == (Dequeues \/ wpc = "ask") /\ step' = "ai_error"
\* How the last attempt of the last call ended.
LastOutcome(history) ==
    LET call == history[Len(history)] IN call.outcomes[Len(call.outcomes)]

TurnEnds == (Dequeues \/ wpc = "ask") /\ wpc' = "check"
\* The i-th output of the turn is a response or an error notice that tts.speak
\* failed to speak.
FailedSpeech(audio, i) ==
    /\ audio[i].out = "tts" /\ ~audio[i].ok
    /\ audio[i].what \in {"response", "stt", "ai_timeout", "ai_general"}

\* C28: a failure of tts.speak does not leave the turn.  When speaking a
\* response or an error notice fails, the error sound is attempted right after
\* it, and whether or not that sound could be played the code after the
\* fallback runs: the ready sound is attempted next, the task is done and the
\* worker is back at its loop test; a response turn ends as a response turn,
\* with the display listening again.
C28_SpeechFailureContained ==
    [][ TurnEnds =>
          \A i \in 1..Len(spoken') :
             FailedSpeech(spoken', i) =>
               /\ Len(spoken') = i + 2
               /\ spoken'[i + 1].out = "wav" /\ spoken'[i + 1].what = "error"
               /\ spoken'[i + 2].out = "wav" /\ spoken'[i + 2].what = "ready"
               /\ unfinished' = unfinished - 1 /\ inflight' = {}
               /\ spoken'[i].what = "response"
                     => /\ step' = "response" /\ ui_state' = "LISTENING"
                        /\ spoken'[i + 2].ok ]_vars

\* Speaking the response failed and the error sound failed too: the turn went
\* on to the ready sound and ended as a response turn.
C28_Witness ==
    /\ cur.source = "VOICE" /\ step = "response" /\ Call.result = "ok"
    /\ spoken = <<Tts("response", Call.response, FALSE), WavFailed("error"), Wav("ready")>>
    /\ ui_state = "LISTENING" /\ wpc = "check" /\ unfinished = 0

(***************************************************************************)
(* The outcome of one external call (checked under SpecAdapter).           *)
(***************************************************************************)
\* The process behind the handle ended by itself with exit code zero and
\* printed something other than blanks.
CleanExit(ev) ==
    /\ \E q \in procs : q.pid = current_process /\ q.st = "running"
    /\ ev.kind = "exit" /\ ev.rc = 0 /\ strip(ev.stdout) # <<>>
\* The outcome recorded for the attempt that ends in this step.
AttemptOutcome == Call'.outcomes[Len(Call.outcomes) + 1]

\* C29: an attempt succeeds exactly when its process exited by itself with code
\* zero and its trimmed output is not empty, and ask then returns at once with
\* exactly that trimmed output.  Any other end of the process (non-zero exit,
\* also by a signal; empty or blank output; timeout) is a failure of the attempt:
\* the ask retries or fails, and carries no response.  So an ask that has
\* returned has a response that is trimmed and not empty, and a failed ask
\* has none.
C29_SuccessIsTrimmedOutput ==
    /\ [][ \A ev \in ProcEvents, popen_ok \in BOOLEAN :
              ask_complete(ev, popen_ok) =>
                IF CleanExit(ev)
                THEN /\ AttemptOutcome.ok
                     /\ ~Call'.active /\ Call'.result = "ok"
                     /\ Call'.response = strip(ev.stdout)
                ELSE /\ ~AttemptOutcome.ok
                     /\ Call'.active \/ Call'.result # "ok"
                     /\ Call'.response = <<>> ]_vars
    /\ [](Ended => IF Call.result = "ok"
                   THEN /\ Call.response # <<>> /\ strip(Call.response) = Call.response
                        /\ LastOutcome(asks).ok
                        /\ LastOutcome(asks).response = Call.response
                   ELSE Call.response = <<>> /\ ~LastOutcome(asks).ok)

\* An ask has returned the output of its process without the blanks around it.
C29_Witness ==
    /\ Ended /\ Call.result = "ok" /\ Len(Call.cmds) = 1
    /\ Call.response = <<"o">> /\ current_process = 0

\* communicate runs into the timeout while the process is still running.
TimedOut(ev) ==
    /\ \E q \in procs : q.pid = current_process /\ q.st = "running"
    /\ ev.kind = "timeout"

\* C30: when communicate runs into the timeout, the process is killed and
\* reaped and the attempt ends in a failure marked as a timeout, unlike the
\* failures of an exit code or an empty output; the ask then fails with that
\* timeout, or, for the resume attempt of an ask begun in ResumePending, goes
\* into its fallback.  Whenever no ask is in progress, whichever way the last
\* one ended, the adapter holds no process handle and no process of it is
\* left.
C30_TimeoutAndNoHandle ==
    /\ [][ \A ev \in ProcEvents, popen_ok \in BOOLEAN :
              ask_complete(ev, popen_ok) =>
                /\ (AttemptOutcome.err = "timeout") <=> TimedOut(ev)
                /\ TimedOut(ev) =>
                      /\ ~AttemptOutcome.ok
                      /\ \A q \in procs' : q.pid = current_process => Call'.active
                      /\ IF Call'.active
                         THEN /\ Call.from = "ResumePending"
                              /\ Len(Call.cmds) = 1 /\ Len(Call'.cmds) = 2
                         ELSE Call'.result \in {"timeout", "oserror"} ]_vars
    /\ [](~Asking => (current_process = 0 /\ procs = {}))
    /\ [](Ended => Call.result \in {"ok", "exit", "empty", "timeout", "oserror"})

\* An ask of a fresh session has failed with the timeout: no handle and no
\* process are left.
C30_Witness ==
    /\ Ended /\ Call.result = "timeout" /\ Len(Call.cmds) = 1
    /\ LastOutcome(asks).err = "timeout"
    /\ current_process = 0 /\ procs = {}

(***************************************************************************)
(* The bridge's filters (checked under SpecBridge).                        *)
(***************************************************************************)
\* The Chat envelopes queued or taken by the worker.
ChatQueued ==
    {work_queue[i] : i \in DOMAIN work_queue} \cup (IF cur.source = "MATRIX" THEN {cur} ELSE {})
TextEvent(room, sender, ts, body) ==
    /\ on_message(room, sender, ts, body)
    /\ UNCHANGED <<wpc, cur, inflight, step, spoken, matrix_outgoing, ui_state, stop_event,
                   restart_event, mpc>>
    /\ UNCHANGED backend
    /\ UNCHANGED periphery

\* C31: a text event is queued only if it comes from the configured room, its
\* sender is neither the bot nor outside the allow-list, and it is not older than
\* the session start; so every Chat envelope the worker gets has an allow-listed
\* sender other than the bot, and with an empty allow-list nothing is ever queued.
C31_OnlyAcceptedEventsQueued ==
    [][ /\ enqueued' # enqueued =>
              \A room \in ChatRooms, sender \in ChatSenders, ts \in ChatTimestamps,
                 body \in ChatTexts :
                TextEvent(room, sender, ts, body) =>
                  /\ room = bridge_cfg.room_id
                  /\ sender # bridge_cfg.user_id
                  /\ sender \in bridge_cfg.allowed_users
                  /\ ts >= bridge_cfg.start_timestamp
                  /\ work_queue' = Append(work_queue, work_queue'[Len(work_queue')])
                  /\ work_queue'[Len(work_queue')].source = "MATRIX"
                  /\ work_queue'[Len(work_queue')].room_id = room
                  /\ work_queue'[Len(work_queue')].sender = sender
        /\ \A msg \in ChatQueued' :
              msg.sender \in bridge_cfg.allowed_users /\ msg.sender # bridge_cfg.user_id
        /\ bridge_cfg.allowed_users = {} => enqueued' = 0 /\ work_queue' = <<>> ]_vars

\* The bot is on its own allow-list, and what is queued is a user's message.
C31_Witness ==
    /\ bridge_cfg.user_id \in bridge_cfg.allowed_users
    /\ bridge_cfg.start_timestamp # 0
    /\ Len(work_queue) = 2
    /\ \A i \in DOMAIN work_queue :
         work_queue[i].source = "MATRIX" /\ work_queue[i].sender = "@user"

(***************************************************************************)
(* The envelope (checked under Spec).                                      *)
(***************************************************************************)
\* The envelopes that exist: those queued and the one the worker has taken.
Envelopes ==
    {work_queue[i] : i \in DOMAIN work_queue} \cup (IF cur.id # 0 THEN {cur} ELSE {})
WellFormed(msg) ==
    /\ msg.input_type = "AUDIO" => msg.source \in {"VOICE", "MATRIX"}
    /\ msg.room_id # "" <=> msg.source = "MATRIX"
    /\ msg.sender # "" <=> msg.source = "MATRIX"

\* C32: every envelope the voice producer, the keyboard producer and the bridge
\* enqueue carries raw audio only if it is not a Keyboard envelope, has room_id
\* and sender exactly if it is a Chat envelope, and is the same envelope from its
\* put to the end of its turn.
C32_EnvelopeInvariants ==
    [][ /\ \A msg \in Envelopes' : WellFormed(msg)
        /\ \A before \in Envelopes, after \in Envelopes' : before.id = after.id => before = after
        /\ \/ work_queue' = work_queue
           \/ \E msg \in Envelopes' : work_queue' = Append(work_queue, msg) /\ msg.id = enqueued'
           \/ work_queue # <<>> /\ work_queue' = Tail(work_queue) /\ cur' = Head(work_queue) ]_vars

\* The worker is inside ask for a Voice recording while a Chat message waits.
C32_Witness ==
    /\ wpc = "ask" /\ cur.source = "VOICE" /\ cur.input_type = "AUDIO"
    /\ cur.room_id = "" /\ cur.sender = ""
    /\ Len(work_queue) = 1
    /\ work_queue[1].source = "MATRIX" /\ work_queue[1].input_type = "TEXT"
    /\ work_queue[1].room_id = bridge_room /\ work_queue[1].sender = "@user"

(***************************************************************************)
(* The keyboard producer (checked under Spec).                             *)
(***************************************************************************)
KeyPressed(typed_text, collected) ==
    /\ keyboard_turn(typed_text, collected)
    /\ UNCHANGED <<wpc, cur, inflight, step, spoken, matrix_outgoing, stop_event,
                   restart_event>>
    /\ UNCHANGED backend
    /\ UNCHANGED <<bridge_cfg, matrix_sent, recorder>>
NonBlank(text) == text # <<>> /\ strip(text) # <<>>

AudioEvent(room, sender, ts, size, download, stt_ok, raw) ==
    /\ on_audio_message(room, sender, ts, size, download, stt_ok, raw)
    /\ UNCHANGED <<wpc, cur, inflight, step, spoken, matrix_outgoing, ui_state, stop_event,
                   restart_event, mpc>>
    /\ UNCHANGED backend
    /\ UNCHANGED <<bridge_cfg, keyboard_paused, recorder>>
Notices == {"too_large", "download_error", "transcription_error", "no_text"}
\* The bridge itself sends something in this step.
BridgeSends ==
    /\ Len(matrix_sent') = Len(matrix_sent) + 1
    /\ matrix_sent'[Len(matrix_sent')].by = "_send_text"

\* C34: a voice note that passes the bridge's filters is queued only when its
\* file fits, its download and its transcription succeed and the filtered
\* transcript is not blank: then exactly one MATRIX/TEXT envelope with the
\* filtered transcript is appended (after the transcript was quoted to the
\* room); in every other case nothing is queued and exactly one notice goes to
\* the room the note came from.  The envelope is never an AUDIO envelope.
C34_VoiceNote ==
    [][ /\ BridgeSends =>
              \A room \in ChatRooms, sender \in ChatSenders, ts \in ChatTimestamps,
                 size \in Sizes, download \in Downloads, stt_ok \in BOOLEAN,
                 raw \in Transcripts :
                AudioEvent(room, sender, ts, size, download, stt_ok, raw) =>
                  IF size = "fits" /\ download = "body" /\ stt_ok
                     /\ NonBlank(filter_transcript(raw))
                  THEN /\ work_queue' = Append(work_queue,
                                               [id |-> enqueued + 1, source |-> "MATRIX",
                                                input_type |-> "TEXT",
                                                content |-> filter_transcript(raw),
                                                room_id |-> room, sender |-> sender,
                                                after_stop |-> stop_event])
                       /\ enqueued' = enqueued + 1
                       /\ matrix_sent'[Len(matrix_sent')].what = "transcript"
                       /\ matrix_sent'[Len(matrix_sent')].text = filter_transcript(raw)
                  ELSE /\ work_queue' = work_queue /\ enqueued' = enqueued
                       /\ matrix_sent'[Len(matrix_sent')].what \in Notices
                       /\ matrix_sent'[Len(matrix_sent')].room_id = room
        /\ enqueued' # enqueued /\ work_queue'[Len(work_queue')].source = "MATRIX" =>
              /\ enqueued' = enqueued + 1
              /\ work_queue'[Len(work_queue')].input_type = "TEXT"
        /\ Len(matrix_sent') \in {Len(matrix_sent), Len(matrix_sent) + 1} ]_vars

\* A voice note that said " St" is queued as "St", its transcript quoted first.
C34_Witness ==
    /\ matrix_sent = <<[room_id |-> bridge_room, what |-> "transcript",
                        text |-> <<"S", "t">>, re |-> 1, by |-> "_send_text"]>>
    /\ Len(work_queue) = 1
    /\ work_queue[1].source = "MATRIX" /\ work_queue[1].input_type = "TEXT"
    /\ work_queue[1].content = <<"S", "t">>

(***************************************************************************)
(* The recorder (checked under SpecRecorder).                              *)
(***************************************************************************)
FeedStep(audio_chunk) ==
    /\ recorder.recording => Len(recorder.audio_buffer) < MaxChunks
    /\ recorder' = process_chunk(recorder, audio_chunk)
\* The consecutive silent frames at the end of the first i frames of a chunk,
\* counting on from the recorder's count when none of the i frames is speech.
SilentRun(audio_chunk, i) ==
    IF \E j \in 1..i : audio_chunk[j]
    THEN i - (CHOOSE j \in 1..i : audio_chunk[j] /\ \A k \in (j + 1)..i : ~audio_chunk[k])
    ELSE recorder.silence_frames + i
\* The frames of a chunk at which a stop condition holds.
StopFrames(audio_chunk) ==
    {i \in 1..Len(audio_chunk) :
       \/ SilentRun(audio_chunk, i) >= recorder.silence_frame_limit
       \/ recorder.total_frames + i >= recorder.max_frame_limit}
Least(S) == CHOOSE i \in S : \A j \in S : i <= j

\* C35: process_chunk on a recorder that is not recording returns False and
\* buffers nothing; on a recording one it buffers the chunk and goes through
\* its frames up to the first frame at which the run of silent frames reaches
\* the silence limit or the number of frames reaches the maximum: there it
\* stops recording and returns False, and without such a frame it returns True
\* and keeps recording.  So a recording never has more than the maximum number
\* of frames, and a stopped recorder records again only through start().
C35_RecorderSession ==
    [][ /\ \A audio_chunk \in Chunks :
              FeedStep(audio_chunk) =>
                IF ~recorder.recording
                THEN recorder' = [recorder EXCEPT !.returned = "False"]
                ELSE /\ recorder'.audio_buffer = Append(recorder.audio_buffer, Len(audio_chunk))
                     /\ IF StopFrames(audio_chunk) # {}
                        THEN LET i == Least(StopFrames(audio_chunk))
                             IN  /\ recorder'.returned = "False" /\ ~recorder'.recording
                                 /\ recorder'.total_frames = recorder.total_frames + i
                                 /\ recorder'.silence_frames = SilentRun(audio_chunk, i)
                        ELSE /\ recorder'.returned = "True" /\ recorder'.recording
                             /\ recorder'.total_frames = recorder.total_frames + Len(audio_chunk)
                             /\ recorder'.silence_frames =
                                  SilentRun(audio_chunk, Len(audio_chunk))
        /\ recorder'.total_frames <= recorder'.max_frame_limit
        /\ recorder'.recording =>
              /\ recorder'.total_frames < recorder'.max_frame_limit
              /\ recorder'.silence_frames < recorder'.silence_frame_limit
        /\ ~recorder.recording /\ recorder'.recording => recorder' = start(recorder) ]_vars

\* Speech, then silence up to the limit, before the maximum: the recorder has
\* stopped on silence.
C35_Witness ==
    /\ ~recorder.recording /\ recorder.returned = "False"
    /\ recorder.silence_frames = recorder.silence_frame_limit
    /\ recorder.silence_frames < recorder.total_frames
    /\ recorder.total_frames < recorder.max_frame_limit

(***************************************************************************)
(* The display after a turn (checked under Spec).                          *)
(***************************************************************************)
\* Every envelope put so far has had its turn, and run_loop is at the top of its
\* loop: nothing is being recorded or typed, nothing waits, the worker is idle.
AllTurnsDone == enqueued > 0 /\ unfinished = 0 /\ work_queue = <<>> /\ mpc = "loop"

\* The ways a turn ends other than by the restart request.
OrdinaryEnds == {"response", "ai_error", "stt_error", "cancel", "reset", "too_short", "empty"}

\* C36: once the worker has finished the turns of all envelopes, the last by a
\* routed response, an AI or transcription failure, a cancel or reset, or a
\* dropped recording or text, and nothing is being recorded or typed, the
\* display shows LISTENING.
C36_IdleDisplayListening == AllTurnsDone /\ step \in OrdinaryEnds => ui_state = "LISTENING"

(***************************************************************************)
(* Cancel by chat (checked under Spec).                                    *)
(***************************************************************************)
\* The worker takes a Chat envelope and leaves it by the cancel branch.
ChatCancelTurn ==
    Len(work_queue') < Len(work_queue) /\ step' = "cancel" /\ cur'.source = "MATRIX"

BeforeStop == mpc \in {"loop", "join_restart", "join_interrupt"}

\* C38: the turn that sets the restart signal leaves the worker at its loop
\* test with the stop event and the queue behind it untouched, and the worker
\* leaves its loop only on the stop event; every envelope that waits while the
\* signal is up and run_loop has not passed work_queue.join() gets its turn;
\* run_loop sets the stop event and raises _RestartRequested only after join
\* has returned with no task unfinished.
C38_RestartDrainsQueue ==
    /\ \A k \in 1..MaxEnq :
          (restart_event /\ Pending(k) /\ BeforeStop) ~> Processed(k)
    /\ [][ /\ restart_event' # restart_event =>
                /\ wpc' = "check" /\ stop_event' = stop_event /\ ~stop_event
                /\ work_queue' = Tail(work_queue)
           /\ wpc' = "exited" /\ wpc # "exited" => stop_event
           /\ stop_event' # stop_event => mpc \in {"stop_restart", "stop_interrupt"}
           /\ mpc' = "stop_restart" /\ mpc # "stop_restart" =>
                /\ mpc = "join_restart"
                /\ unfinished = 0 /\ work_queue = <<>> /\ inflight = {}
           /\ mpc' = "restart_requested" /\ mpc # "restart_requested" =>
                mpc = "wait_restart" /\ stop_event ]_vars

\* _RestartRequested has left run_loop; the envelope that was queued behind the
\* restart command got its ask and its response after the signal was set.
C38_Witness ==
    /\ mpc = "restart_requested" /\ restart_event /\ stop_event
    /\ enqueued = 2 /\ Processed(1) /\ Processed(2)
    /\ cur.id = 2 /\ step = "response" /\ Len(asks) = 1 /\ Call.id = 2 /\ Call.result = "ok"

(***************************************************************************)
(* The outbound chat queue (checked under Spec).                           *)
(***************************************************************************)
ChatReplies == {"response", "ai_error", "stt_error", "cancel", "reset"}

\* C39: the worker puts a message on the outbound chat queue only in the step
\* that ends the turn of a Chat envelope, one message, addressed to the room of
\* that envelope, and it is the response, an error text or the confirmation of
\* a cancel or reset; an envelope has one turn (the worker takes envelopes in
\* rising order of their ids and keeps the envelope while it is inside ask), so
\* a Chat envelope gets at most one message and a Voice or Keyboard envelope
\* none.
C39_OneReplyPerChatEnvelope ==
    [][ /\ Len(matrix_outgoing') > Len(matrix_outgoing) =>
              /\ matrix_outgoing' = Append(matrix_outgoing, matrix_outgoing'[Len(matrix_outgoing')])
              /\ (Len(work_queue') < Len(work_queue) \/ wpc = "ask") /\ wpc' = "check"
              /\ cur'.source = "MATRIX"
              /\ matrix_outgoing'[Len(matrix_outgoing')].room_id = cur'.room_id
              /\ matrix_outgoing'[Len(matrix_outgoing')].what \in ChatReplies
              /\ matrix_outgoing'[Len(matrix_outgoing')].what = step'
        /\ Len(work_queue') < Len(work_queue) => cur'.id > cur.id /\ cur' = Head(work_queue)
        /\ wpc = "ask" => cur' = cur ]_vars

\* Two chat messages have had their turns: a cancel and a message whose ask
\* failed; the outbound queue holds one confirmation and one error text.
C39_Witness ==
    /\ enqueued = 2 /\ Processed(1) /\ Processed(2) /\ cur.id = 2 /\ cur.source = "MATRIX"
    /\ Len(matrix_outgoing) = 2
    /\ matrix_outgoing[1].what = "cancel" /\ matrix_outgoing[1].room_id = bridge_room
    /\ matrix_outgoing[2].what = "ai_error" /\ matrix_outgoing[2].room_id = bridge_room

(***************************************************************************)
(* The order of what is sent to the room (checked under SpecBridge).       *)
(***************************************************************************)
\* What _response_sender has sent so far, as the (room, text) items it took.
SentByWorker ==
    SelectSeq(matrix_sent, LAMBDA m : m.by = "_response_sender")

Unsent(m) == [room_id |-> m.room_id, what |-> m.what, text |-> m.text, re |-> m.re]

RECURSIVE AsPut(_)
AsPut(sent) == IF sent = <<>> THEN <<>> ELSE <<Unsent(Head(sent))>> \o AsPut(Tail(sent))

\* Everything the worker has put on the outgoing queue, sent or not, in the
\* order of the puts.
PutOrder == AsPut(SentByWorker) \o matrix_outgoing

IsPrefix(s, t) == Len(s) <= Len(t) /\ s = SubSeq(t, 1, Len(s))

\* C40: _response_sender sends the messages of the outgoing queue one at a
\* time and in the order the worker put them: a sending step takes the oldest
\* queued message and sends exactly it, what was sent is never reordered, and
\* sent and unsent messages together stay in the order of the puts; and the
\* transcript quote of a voice note is sent, in the step that queues the
\* note's envelope, before the reply to that envelope.
C40_RepliesSentInPutOrder ==
    [][ /\ IsPrefix(matrix_sent, matrix_sent') /\ Len(matrix_sent') <= Len(matrix_sent) + 1
        /\ IsPrefix(PutOrder, PutOrder')
        /\ Len(matrix_outgoing') < Len(matrix_outgoing) =>
              /\ matrix_outgoing' = Tail(matrix_outgoing)
              /\ matrix_sent' = Append(matrix_sent,
                                       [room_id |-> Head(matrix_outgoing).room_id,
                                        what |-> Head(matrix_outgoing).what,
                                        text |-> Head(matrix_outgoing).text,
                                        re |-> Head(matrix_outgoing).re,
                                        by |-> "_response_sender"])
        /\ \A i \in 1..Len(PutOrder') : \A j \in 1..Len(PutOrder') :
              i < j => PutOrder'[i].re < PutOrder'[j].re
        /\ \A i \in 1..Len(matrix_sent') :
              matrix_sent'[i].what = "transcript" =>
                /\ matrix_sent'[i].by = "_send_text"
                /\ matrix_sent'[i].re \in 1..enqueued'
                /\ \A j \in 1..Len(matrix_sent') :
                      (matrix_sent'[j].by = "_response_sender"
                         /\ matrix_sent'[j].re = matrix_sent'[i].re) => i < j
        /\ (Len(matrix_sent') > Len(matrix_sent)
              /\ matrix_sent'[Len(matrix_sent')].what = "transcript") =>
              /\ enqueued' = enqueued + 1
              /\ matrix_sent'[Len(matrix_sent')].re = enqueued'
              /\ work_queue' = Append(work_queue, work_queue'[Len(work_queue')])
              /\ work_queue'[Len(work_queue')].id = enqueued'
              /\ work_queue'[Len(work_queue')].content = matrix_sent'[Len(matrix_sent')].text ]_vars

\* A voice note was quoted and its envelope answered, and the reply to a
\* later chat message still waits behind it: the quote and the response to the
\* note have been sent in that order, the later reply has not.
C40_Witness ==
    /\ Len(matrix_sent) = 2
    /\ matrix_sent[1].what = "transcript" /\ matrix_sent[1].by = "_send_text"
    /\ matrix_sent[2].what = "response" /\ matrix_sent[2].by = "_response_sender"
    /\ matrix_sent[1].re = 1 /\ matrix_sent[2].re = 1
    /\ Len(matrix_outgoing) = 1 /\ matrix_outgoing[1].re = 2
====
